---- MODULE Spec2Model ----
(***************************************************************************)
(* A model of the lowering pipeline of shulkerbox: the condition algebra   *)
(* (normalize / to_truth_table / compile), the execute chain compiler, the *)
(* two if/else lowering strategies, group hoisting, the per-function uid   *)
(* counter and the namespace worklist.                                     *)
(*                                                                         *)
(* Rust strings are TLA+ strings; Vec<T> is a sequence; Option<T> is a     *)
(* sequence of length 0 or 1; an enum value is a record whose field t      *)
(* names the variant.                                                      *)
(***************************************************************************)
EXTENDS Integers, Sequences, FiniteSets, TLC

VARIABLES
    cond,       \* the Condition handed to the condition algebra
    cpc,        \* position of the condition pipeline
    norm,       \* cond.normalize()
    renorm,     \* cond.normalize().normalize()
    table,      \* cond.to_truth_table()
    strs,       \* cond.compile(..): [panic, out]
    xcmd,       \* the Command handed to Command::compile
    xopts,      \* the CompileOptions: [pack_format, debug]
    xpc,        \* "input" before the compile, "compiled" after it
    xres,       \* what the compile returned and left behind: [out, fs]
    ns,         \* the Namespace being compiled: [name, functions]
    nopts,      \* the CompileOptions of Namespace::compile
    npc,        \* position of Namespace::compile
    queue,      \* the ExtendableQueue of (path, Function) still to compile
    root_folder, \* the files added so far: path -> content
    pushed,     \* the paths handed to add_function so far, in order
    uid_counter, \* the usize inside FunctionCompilerState::uid_counter
    holder,     \* the thread holding the uid_counter mutex, NoThread if free
    tpc,        \* position of each thread inside request_uid
    uid,        \* the local uid of each thread inside request_uid
    calls,      \* the number of request_uid calls each thread has started
    returned,   \* the [thread, uid] returns of request_uid so far, in order
    deque,      \* the VecDeque inside the ExtendableQueue under test
    writer,     \* the thread holding the write lock of the RwLock, NoThread if free
    qpc,        \* position of each thread inside its queue operation
    qop,        \* the operation each thread is in: [name, items]
    got,        \* what the last next / pop_front of each thread returned (Option)
    ops,        \* the number of queue operations each thread has started
    fresh,      \* the next element value to be appended
    appended,   \* every element put into the queue so far, in order
    taken,      \* every element next / pop_front has returned so far, in order
    vcmd,       \* the Command handed to Command::validate
    vrange,     \* the pack_formats range: [start, end]
    vpc,        \* "input" before validate, "validated" after it
    vres,       \* what validate returned
    vfolder,    \* the VFolder under test: [folders, files]
    fop,        \* the last operation that changed vfolder
    fpath,      \* the path handed to that operation
    farg,       \* the folder handed to add_existing_folder
    adds,       \* the number of operations that have changed vfolder
    fpc,        \* "added" after a change, "got" after a get_folder
    asked,      \* the path handed to the last get_folder
    found,      \* what the last get_folder returned (Option)
    kex,        \* the Execute handed to Execute::get_count
    kopts,      \* the CompileOptions of the count
    kfs,        \* the FunctionCompilerState of the enclosing compile
    kbefore,    \* kfs as it was before the count
    kn,         \* what get_count returned
    kpc,        \* "input" before the count, "counted" after it
    rguard,     \* the Guard whose lines are run
    ropts,      \* the CompileOptions the Guard was compiled with
    rtrue,      \* the atoms that hold while the lines run
    rlines,     \* the text lines of the function the Guard was compiled into
    rfuncs,     \* the functions the compile pushed, as path and text lines
    store,      \* the keys set in storage shulkerbox:cond
    trace,      \* the instructions run so far, in order
    rpc,        \* the index of the next line of rlines to run
    mconds,     \* the condition strings handed to combine_conditions_commands
    mcmds,      \* the (use_prefix, text) pairs handed to it
    combined,   \* the pairs it returned
    mpc         \* "input" before the call, "combined" after it

condVars == <<cond, cpc, norm, renorm, table, strs>>
execVars == <<xcmd, xopts, xpc, xres>>
nsVars == <<ns, nopts, npc, queue, root_folder, pushed>>
uidVars == <<uid_counter, holder, tpc, uid, calls, returned>>
queueVars == <<deque, writer, qpc, qop, got, ops, fresh, appended, taken>>
validateVars == <<vcmd, vrange, vpc, vres>>
folderVars == <<vfolder, fop, fpath, farg, adds, fpc, asked, found>>
countVars == <<kex, kopts, kfs, kbefore, kn, kpc>>
runVars == <<rguard, ropts, rtrue, rlines, rfuncs, store, trace, rpc>>
combineVars == <<mconds, mcmds, combined, mpc>>
vars == <<condVars, execVars, nsVars, uidVars, queueVars, validateVars, folderVars, countVars, runVars, combineVars>>

\* what an action on one part of the program leaves alone
outsideCond == <<execVars, nsVars, uidVars, queueVars, validateVars, folderVars, countVars, runVars, combineVars>>
outsideExec == <<condVars, nsVars, uidVars, queueVars, validateVars, folderVars, countVars, runVars, combineVars>>
outsideNs == <<condVars, execVars, uidVars, queueVars, validateVars, folderVars, countVars, runVars, combineVars>>
outsideUid == <<condVars, execVars, nsVars, queueVars, validateVars, folderVars, countVars, runVars, combineVars>>
outsideQueue == <<condVars, execVars, nsVars, uidVars, validateVars, folderVars, countVars, runVars, combineVars>>
outsideValidate == <<condVars, execVars, nsVars, uidVars, queueVars, folderVars, countVars, runVars, combineVars>>
outsideFolder == <<condVars, execVars, nsVars, uidVars, queueVars, validateVars, countVars, runVars, combineVars>>
outsideCount == <<condVars, execVars, nsVars, uidVars, queueVars, validateVars, folderVars, runVars, combineVars>>
outsideRun == <<condVars, execVars, nsVars, uidVars, queueVars, validateVars, folderVars, countVars, combineVars>>
outsideCombine == <<condVars, execVars, nsVars, uidVars, queueVars, validateVars, folderVars, countVars, runVars>>

\* the value of holder when no thread holds the mutex
NoThread == 0

\* the variables of Namespace::compile while another part is looked at
NsIdle ==
    /\ ns = [name |-> "", functions |-> <<>>]
    /\ nopts = [pack_format |-> 0, debug |-> FALSE]
    /\ npc = "idle"
    /\ queue = <<>>
    /\ root_folder = <<>>
    /\ pushed = <<>>

\* the variables of request_uid while another part is looked at
UidIdle ==
    /\ uid_counter = 0
    /\ holder = NoThread
    /\ tpc = <<>>
    /\ uid = <<>>
    /\ calls = <<>>
    /\ returned = <<>>

\* the variables of the ExtendableQueue under test while another part is
\* looked at
QueueIdle ==
    /\ deque = <<>>
    /\ writer = NoThread
    /\ qpc = <<>>
    /\ qop = <<>>
    /\ got = <<>>
    /\ ops = <<>>
    /\ fresh = 0
    /\ appended = <<>>
    /\ taken = <<>>

\* the variables of Validate while another part is looked at
ValidateIdle ==
    /\ vcmd = [t |-> "Raw", s |-> ""]
    /\ vrange = [start |-> 0, end |-> 0]
    /\ vpc = "idle"
    /\ vres = FALSE

\* the variables of Folder while another part is looked at
FolderIdle ==
    /\ vfolder = [folders |-> <<>>, files |-> <<>>]
    /\ fop = ""
    /\ fpath = ""
    /\ farg = [folders |-> <<>>, files |-> <<>>]
    /\ adds = 0
    /\ fpc = "idle"
    /\ asked = ""
    /\ found = <<>>

\* the variables of Count while another part is looked at
CountIdle ==
    /\ kex = [t |-> "Runs", cmds |-> <<>>]
    /\ kopts = [pack_format |-> 0, debug |-> FALSE]
    /\ kfs = 0
    /\ kbefore = 0
    /\ kn = 0
    /\ kpc = "idle"

\* the variables of Run while another part is looked at
RunIdle ==
    /\ rguard = [t |-> "Runs", cmds |-> <<>>]
    /\ ropts = [pack_format |-> 0, debug |-> FALSE]
    /\ rtrue = {}
    /\ rlines = <<>>
    /\ rfuncs = <<>>
    /\ store = {}
    /\ trace = <<>>
    /\ rpc = 0

\* the variables of Combine while another part is looked at
CombineIdle ==
    /\ mconds = <<>>
    /\ mcmds = <<>>
    /\ combined = <<>>
    /\ mpc = "idle"

----------------------------------------------------------------------------
(* Bounds *)

\* greatest number of connectives (Not, And, Or) of an input Condition
MaxOps == 3

\* greatest number of modifiers in front of the terminal of an input Execute
MaxMods == 2

\* greatest length of an input command list (Runs, Group)
MaxCmds == 2

\* greatest number of functions the user puts into the namespace
MaxFunctions == 2

\* number of threads sharing one FunctionCompilerState
MaxThreads == 2

\* greatest number of request_uid calls of one thread
MaxCalls == 3

\* greatest number of queue operations of one thread
MaxQueueOps == 2

\* greatest number of elements ever put into the queue under test
MaxElems == 3

\* number of sample formats the supported range is drawn from
MaxFormats == 12

\* number of add_folder / add_existing_folder calls on the VFolder under test
MaxAdds == 2

\* greatest number of condition strings handed to combine_conditions_commands
MaxConds == 3

\* greatest number of (use_prefix, text) pairs handed to it
MaxPairs == 2

----------------------------------------------------------------------------
(* String helpers: str::starts_with, str::strip_prefix, whitespace tests *)

StartsWith(s, p) == Len(s) >= Len(p) /\ SubSeq(s, 1, Len(p)) = p

StripPrefix(s, p) == IF StartsWith(s, p) THEN SubSeq(s, Len(p) + 1, Len(s)) ELSE s

IsWhitespace(ch) == ch \in {" ", "\t", "\n", "\r"}

AllWhitespace(s) == \A i \in 1..Len(s) : IsWhitespace(SubSeq(s, i, i))

\* the number of occurrences of character ch in s
CountChar(s, ch) == Cardinality({i \in 1..Len(s) : SubSeq(s, i, i) = ch})

EndsWith(s, e) == Len(s) >= Len(e) /\ SubSeq(s, Len(s) - Len(e) + 1, Len(s)) = e

RECURSIVE SplitLines(_)
\* the segments of s between its newlines: s.split('\n')
SplitLines(s) ==
    IF CountChar(s, "\n") = 0 THEN <<s>>
    ELSE LET first == CHOOSE i \in 1..Len(s) :
                          /\ SubSeq(s, i, i) = "\n"
                          /\ \A j \in 1..(i - 1) : SubSeq(s, j, j) # "\n"
         IN <<SubSeq(s, 1, first - 1)>> \o SplitLines(SubSeq(s, first + 1, Len(s)))

----------------------------------------------------------------------------
(* Condition: the enum and its operator constructors *)

Atom(s) == [t |-> "Atom", s |-> s]
Not(c) == [t |-> "Not", c |-> c]
And(a, b) == [t |-> "And", a |-> a, b |-> b]
Or(a, b) == [t |-> "Or", a |-> a, b |-> b]

RECURSIVE normalize(_)
\* a slip of normalize: De Morgan without normalizing the negated operands
normalize_no_recursion(self) ==
    CASE self.t = "Atom" -> self
      [] self.t = "Not" ->
            LET c == self.c IN
            (CASE c.t = "Atom" -> Not(Atom(c.s))
              [] c.t = "Not" -> normalize(c.c)
              [] c.t = "And" -> Or(Not(c.a), Not(c.b))
              [] c.t = "Or" -> And(Not(c.a), Not(c.b)))
      [] self.t = "And" -> And(normalize(self.a), normalize(self.b))
      [] self.t = "Or" -> Or(normalize(self.a), normalize(self.b))

\* a slip of normalize: the negation moves inward but the connective stays
normalize_same_connective(self) ==
    CASE self.t = "Atom" -> self
      [] self.t = "Not" ->
            LET c == self.c IN
            (CASE c.t = "Atom" -> Not(Atom(c.s))
              [] c.t = "Not" -> normalize(c.c)
              [] c.t = "And" -> And(normalize(Not(c.a)), normalize(Not(c.b)))
              [] c.t = "Or" -> Or(normalize(Not(c.a)), normalize(Not(c.b))))
      [] self.t = "And" -> And(normalize(self.a), normalize(self.b))
      [] self.t = "Or" -> Or(normalize(self.a), normalize(self.b))

normalize(self) ==
    CASE self.t = "Atom" -> self
      [] self.t = "Not" ->
            LET c == self.c IN
            (CASE c.t = "Atom" -> Not(Atom(c.s))
              [] c.t = "Not" -> normalize(c.c)
              [] c.t = "And" -> Or(normalize(Not(c.a)), normalize(Not(c.b)))
              [] c.t = "Or" -> And(normalize(Not(c.a)), normalize(Not(c.b))))
      [] self.t = "And" -> And(normalize(self.a), normalize(self.b))
      [] self.t = "Or" -> Or(normalize(self.a), normalize(self.b))

\* a.into_iter().flat_map(|el1| b.iter().map(move |el2| And(el1, el2)))
CrossAnd(a, b) ==
    [k \in 1..(Len(a) * Len(b)) |->
        And(a[((k - 1) \div Len(b)) + 1], b[((k - 1) % Len(b)) + 1])]

RECURSIVE to_truth_table(_)
\* a slip of to_truth_table: And pairs the clauses position by position
to_truth_table_zip(self) ==
    LET n == normalize(self) IN
    CASE n.t \in {"Atom", "Not"} -> <<self>>
      [] n.t = "Or" -> to_truth_table(n.a) \o to_truth_table(n.b)
      [] n.t = "And" ->
            LET a == to_truth_table(n.a)
                b == to_truth_table(n.b)
                m == IF Len(a) < Len(b) THEN Len(a) ELSE Len(b)
            IN [k \in 1..m |-> And(a[k], b[k])]

to_truth_table(self) ==
    LET n == normalize(self) IN
    CASE n.t \in {"Atom", "Not"} -> <<self>>
      [] n.t = "Or" -> to_truth_table(n.a) \o to_truth_table(n.b)
      [] n.t = "And" -> CrossAnd(to_truth_table(n.a), to_truth_table(n.b))

RECURSIVE str_cond(_)
\* Option<String>: <<>> is None, <<s>> is Some(s)
str_cond(self) ==
    CASE self.t = "Atom" -> <<"if " \o self.s>>
      [] self.t = "Not" ->
            IF self.c.t = "Atom" THEN <<"unless " \o self.c.s>> ELSE <<>>
      [] self.t = "And" ->
            LET a == str_cond(self.a)
                b == str_cond(self.b)
            IN IF a = <<>> \/ b = <<>> THEN <<>> ELSE <<a[1] \o " " \o b[1]>>
      [] self.t = "Or" -> <<>>

\* Condition::compile: the expect() panics on the first clause str_cond
\* cannot render; panic = TRUE then and nothing is returned
CondCompile(self) ==
    LET truth_table == to_truth_table(self)
        rendered == [k \in 1..Len(truth_table) |-> str_cond(truth_table[k])]
    IN IF \E k \in 1..Len(rendered) : rendered[k] = <<>>
       THEN [panic |-> TRUE, out |-> <<>>]
       ELSE [panic |-> FALSE, out |-> [k \in 1..Len(rendered) |-> rendered[k][1]]]

----------------------------------------------------------------------------
(* Command and Execute: the enums *)

Raw(s) == [t |-> "Raw", s |-> s]
Debug(s) == [t |-> "Debug", s |-> s]
ExecuteCmd(ex) == [t |-> "Execute", ex |-> ex]
Group(cmds) == [t |-> "Group", cmds |-> cmds]
Comment(s) == [t |-> "Comment", s |-> s]

\* Align .. Summon: a modifier variant with its argument and its successor
Modifier(variant, arg, next) == [t |-> variant, arg |-> arg, next |-> next]
\* If(cond, then, el): el is the Option, <<>> or <<execute>>
If(c, then, el) == [t |-> "If", cond |-> c, then |-> then, el |-> el]
Run(cmd) == [t |-> "Run", cmd |-> cmd]
Runs(cmds) == [t |-> "Runs", cmds |-> cmds]

\* the variants compile_internal treats alike (all but AsAt, Summon)
PlainModifiers ==
    {"Align", "Anchored", "As", "At", "Facing", "In", "On", "Positioned",
     "Rotated", "Store"}

variant_name(self) ==
    CASE self.t = "Align" -> "align"
      [] self.t = "Anchored" -> "anchored"
      [] self.t = "As" -> "as"
      [] self.t = "At" -> "at"
      [] self.t = "AsAt" -> "as_at"
      [] self.t = "Facing" -> "facing"
      [] self.t = "In" -> "in"
      [] self.t = "On" -> "on"
      [] self.t = "Positioned" -> "positioned"
      [] self.t = "Rotated" -> "rotated"
      [] self.t = "Store" -> "store"
      [] self.t = "Summon" -> "summon"
      [] self.t = "If" -> "if"
      [] self.t = "Run" -> "run"
      [] self.t = "Runs" -> "runs"

\* Function::new followed by get_commands_mut().extend(..)
Function(namespace, name, commands) ==
    [namespace |-> namespace, name |-> name, commands |-> commands]

----------------------------------------------------------------------------
(* FunctionCompilerState: uid_counter, path, namespace and the queue handle *)
(* (functions: the content of the shared ExtendableQueue).  panicked        *)
(* records that a panic has unwound the compile that used this state.       *)

FunctionCompilerState(path, namespace, functions) ==
    [uid_counter |-> 0, path |-> path, namespace |-> namespace,
     functions |-> functions, panicked |-> FALSE]

\* a slip of request_uid: the counter is read and not advanced
request_uid_no_increment(fs) == [uid |-> fs.uid_counter, fs |-> fs]

\* request_uid seen from a sequential caller: [uid, fs]
request_uid(fs) ==
    [uid |-> fs.uid_counter, fs |-> [fs EXCEPT !.uid_counter = @ + 1]]

\* add_function: ExtendableQueue::push((name, function))
add_function(fs, name, function) ==
    [fs EXCEPT !.functions = Append(@, <<name, function>>)]

Panicked(fs) == [fs EXCEPT !.panicked = TRUE]

\* md5::hash(s).to_hex_lowercase(): the digest, taken as injective
md5_hex(s) == "md5(" \o s \o ")"

\* &md5::hash(s).to_hex_lowercase()[..16], taken as injective
md5_hex16(s) == "md5_16(" \o s \o ")"

----------------------------------------------------------------------------
(* Command::compile, Execute::compile and what they call.  Every operator  *)
(* takes the FunctionCompilerState and returns [out, fs]: the lines and    *)
(* the state after the call.                                               *)

compile_debug(message, option) ==
    IF option.debug
    THEN <<"tellraw @a [{\"text\":\"[\",\"color\":\"dark_blue\"},{\"text\":\"DEBUG\",\"color\":\"dark_green\",\"hoverEvent\":{\"action\":\"show_text\",\"value\":[{\"text\":\"Debug message generated by Shulkerbox\"},{\"text\":\"\\nSet debug message to 'false' to disable\"}]}},{\"text\":\"]\",\"color\":\"dark_blue\"},{\"text\":\" "
           \o message \o "\",\"color\":\"black\"}]">>
    ELSE <<>>

map_run_cmd(cmd, prefix) ==
    IF StartsWith(cmd, "#") \/ cmd = "" \/ AllWhitespace(cmd)
    THEN [use |-> FALSE, cmd |-> cmd]
    ELSE [use |-> TRUE, cmd |-> prefix \o "run " \o cmd]

\* .map(|c| map_run_cmd(c, &prefix)).collect()
MapRunCmds(lines, prefix) == [k \in 1..Len(lines) |-> map_run_cmd(lines[k], prefix)]

\* a slip of combine_conditions_commands: the loops are nested the other way
\* round, every command paired with every condition
combine_conditions_commands_command_major(conditions, commands) ==
    [k \in 1..(Len(conditions) * Len(commands)) |->
        LET c == conditions[((k - 1) % Len(conditions)) + 1]
            pair == commands[((k - 1) \div Len(conditions)) + 1]
        IN IF pair.use
           THEN [use |-> TRUE, cmd |-> c \o " " \o pair.cmd]
           ELSE [use |-> FALSE, cmd |-> pair.cmd]]

\* a slip of combine_conditions_commands: the command is put before the condition
combine_conditions_commands_command_first(conditions, commands) ==
    [k \in 1..(Len(conditions) * Len(commands)) |->
        LET c == conditions[((k - 1) \div Len(commands)) + 1]
            pair == commands[((k - 1) % Len(commands)) + 1]
        IN IF pair.use
           THEN [use |-> TRUE, cmd |-> pair.cmd \o " " \o c]
           ELSE [use |-> FALSE, cmd |-> pair.cmd]]

combine_conditions_commands(conditions, commands) ==
    [k \in 1..(Len(conditions) * Len(commands)) |->
        LET c == conditions[((k - 1) \div Len(commands)) + 1]
            pair == commands[((k - 1) % Len(commands)) + 1]
        IN IF pair.use
           THEN [use |-> TRUE, cmd |-> c \o " " \o pair.cmd]
           ELSE [use |-> FALSE, cmd |-> pair.cmd]]

\* .map(|(use_prefix, cmd)| (use_prefix, if use_prefix { prefix + cmd } else { cmd }))
ApplyPrefix(pairs, prefix) ==
    [k \in 1..Len(pairs) |->
        IF pairs[k].use
        THEN [use |-> TRUE, cmd |-> prefix \o pairs[k].cmd]
        ELSE pairs[k]]

\* the state get_count compiles against: FunctionCompilerState::new("[INTERNAL]",
\* "[INTERNAL]", ExtendableQueue::default())
InternalState == FunctionCompilerState("[INTERNAL]", "[INTERNAL]", <<>>)

\* match then.clone() { Run(cmd) => vec![*cmd], Runs(cmds) => cmds, ex => vec![Execute(ex)] }
BranchCommands(ex) ==
    CASE ex.t = "Run" -> <<ex.cmd>>
      [] ex.t = "Runs" -> ex.cmds
      [] OTHER -> <<ExecuteCmd(ex)>>

\* Call(op, args) applies the operator named op to args: the operators of this
\* section call one another through it
RECURSIVE Call(_, _)


CommandCompile(self, options, fs) ==
    CASE self.t = "Raw" -> [out |-> <<self.s>>, fs |-> fs]
      [] self.t = "Debug" -> [out |-> compile_debug(self.s, options), fs |-> fs]
      [] self.t = "Execute" -> Call("ExecuteCompile", <<self.ex, options, fs>>)
      [] self.t = "Group" -> Call("compile_group", <<self.cmds, options, fs>>)
      [] self.t = "Comment" -> [out |-> <<"#" \o self.s>>, fs |-> fs]

\* commands.iter().flat_map(|c| c.compile(options, global_state, function_state))
CompileEach(commands, options, fs) ==
    IF commands = <<>> THEN [out |-> <<>>, fs |-> fs]
    ELSE LET first == Call("CommandCompile", <<Head(commands), options, fs>>)
             rest == Call("CompileEach", <<Tail(commands), options, first.fs>>)
         IN [out |-> first.out \o rest.out, fs |-> rest.fs]

\* Command::get_count: [n, panicked]
CommandGetCount(self, options) ==
    CASE self.t = "Comment" -> [n |-> 0, panicked |-> FALSE]
      [] self.t = "Debug" -> [n |-> IF options.debug THEN 1 ELSE 0, panicked |-> FALSE]
      [] self.t = "Raw" -> [n |-> CountChar(self.s, "\n") + 1, panicked |-> FALSE]
      [] self.t = "Execute" -> Call("ExecuteGetCount", <<self.ex, options>>)
      [] self.t = "Group" -> [n |-> 1, panicked |-> FALSE]

\* commands.iter().map(|cmd| cmd.get_count(options)).sum::<usize>()
SumGetCount(commands, options) ==
    IF commands = <<>> THEN [n |-> 0, panicked |-> FALSE]
    ELSE LET first == Call("CommandGetCount", <<Head(commands), options>>)
             rest == Call("SumGetCount", <<Tail(commands), options>>)
         IN [n |-> first.n + rest.n, panicked |-> first.panicked \/ rest.panicked]

\* the hoisting branch of compile_group
HoistGroup(commands, fs) ==
    LET req == request_uid(fs)
        stripped == StripPrefix(fs.path, "sb/")
        pre_hash_path == stripped \o ":" \o ToString(req.uid)
        function_path == "sb/" \o stripped \o "/" \o md5_hex16(pre_hash_path)
        function == Function(fs.namespace, function_path, commands)
    IN [out |-> <<"function " \o fs.namespace \o ":" \o function_path>>,
        fs |-> add_function(req.fs, function_path, function)]

\* a slip of compile_group: a group of one line is hoisted too
compile_group_hoists_single(commands, options, fs) ==
    LET command_count == Call("SumGetCount", <<commands, options>>) IN
    IF command_count.panicked THEN [out |-> <<>>, fs |-> Panicked(fs)]
    ELSE IF command_count.n > 0 THEN HoistGroup(commands, fs)
    ELSE Call("CompileEach", <<commands, options, fs>>)

compile_group(commands, options, fs) ==
    LET command_count == Call("SumGetCount", <<commands, options>>) IN
    IF command_count.panicked THEN [out |-> <<>>, fs |-> Panicked(fs)]
    ELSE IF command_count.n > 1 THEN HoistGroup(commands, fs)
    ELSE Call("CompileEach", <<commands, options, fs>>)

ExecuteCompile(self, options, fs) ==
    IF self.t = "Run" THEN Call("CommandCompile", <<self.cmd, options, fs>>)
    ELSE LET r == Call("compile_internal", <<self, "execute ", FALSE, options, fs>>)
         IN [out |-> [k \in 1..Len(r.out) |-> r.out[k].cmd], fs |-> r.fs]

compile_internal(self, prefix, require_grouping, options, fs) ==
    CASE self.t \in PlainModifiers ->
            Call("compile_internal", <<self.next,
                             prefix \o variant_name(self) \o " " \o self.arg \o " ",
                             require_grouping, options, fs>>)
      [] self.t = "AsAt" ->
            Call("compile_internal", <<self.next, prefix \o "as " \o self.arg \o " at @s ",
                             require_grouping, options, fs>>)
      [] self.t = "If" ->
            Call("compile_if_cond", <<self.cond, self.then, self.el, prefix, options, fs>>)
      [] self.t = "Summon" ->
            Call("compile_internal", <<self.next,
                             prefix \o variant_name(self) \o " " \o self.arg \o " ",
                             TRUE, options, fs>>)
      [] self.t = "Run" ->
            IF self.cmd.t = "Execute"
            THEN Call("compile_internal", <<self.cmd.ex, prefix, require_grouping, options, fs>>)
            ELSE LET r == Call("CommandCompile", <<self.cmd, options, fs>>)
                 IN [out |-> MapRunCmds(r.out, prefix), fs |-> r.fs]
      [] self.t = "Runs" ->
            IF ~require_grouping
            THEN LET r == Call("CompileEach", <<self.cmds, options, fs>>)
                 IN [out |-> MapRunCmds(r.out, prefix), fs |-> r.fs]
            ELSE LET r == Call("compile_group", <<self.cmds, options, fs>>)
                 IN [out |-> MapRunCmds(r.out, prefix), fs |-> r.fs]

\* Execute::get_count: [n, panicked]
ExecuteGetCount(self, options) ==
    LET r == Call("compile_internal", <<self, "", FALSE, options, InternalState>>)
    IN [n |-> Len(r.out), panicked |-> r.fs.panicked]

----------------------------------------------------------------------------
(* compile_if_cond and the two lowering strategies *)

\* the pack format from which compile_if_cond takes compile_since_20_format
ReturnFormat == 20

compile_if_cond(c, then, el, prefix, options, fs) ==
    IF options.pack_format < ReturnFormat
    THEN Call("compile_pre_20_format", <<c, then, el, prefix, options, fs>>)
    ELSE Call("compile_since_20_format", <<c, then, el, prefix, options, fs>>)

\* .iter().map(|s| (true, lead + s)).collect()
MapTrue(lines, lead) == [k \in 1..Len(lines) |-> [use |-> TRUE, cmd |-> lead \o lines[k]]]

\* the flag texts of compile_pre_20_format
FlagWrite(success_uid) ==
    "data modify storage shulkerbox:cond " \o success_uid \o " set value true"

FlagCheck(success_uid) ==
    Atom("data storage shulkerbox:cond {" \o success_uid \o ":1b}")

\* a slip of the reset: the fixed default key is removed instead of the key
FlagRemoveDefaultKey(success_uid) == "data remove storage shulkerbox:cond if_success"

FlagRemove(success_uid) == "data remove storage shulkerbox:cond " \o success_uid

\* require_grouping_uid: (el.is_some() || then_count > 1).then(|| ..), as
\* [uid, fs] with uid the Option<String>
RequireGroupingUid(grouping, fs) ==
    IF grouping
    THEN [uid |-> <<md5_hex(fs.path \o ":" \o ToString(request_uid(fs).uid))>>,
          fs |-> request_uid(fs).fs]
    ELSE [uid |-> <<>>, fs |-> fs]

\* require_grouping_uid.as_deref().unwrap_or_else(|| "if_success")
SuccessUid(require_grouping_uid) ==
    IF require_grouping_uid # <<>> THEN require_grouping_uid[1] ELSE "if_success"

\* a slip of compile_pre_20_format: the else part is chained before the then
\* part and the second reset of the success storage is left out
Pre20CombineElseFirst(el, prefix, str_conds, success_uid, then_lines, el_lines) ==
    [out |-> ApplyPrefix(
                 (IF Len(str_conds) > 1 \/ el # <<>>
                  THEN <<[use |-> FALSE, cmd |-> FlagRemove(success_uid)]>>
                  ELSE <<>>)
                 \o (IF Len(str_conds) > 1
                     THEN combine_conditions_commands(
                              str_conds,
                              <<[use |-> TRUE, cmd |-> "run " \o FlagWrite(success_uid)]>>)
                     ELSE <<>>)
                 \o (IF el # <<>>
                     THEN combine_conditions_commands(
                              CondCompile(Not(FlagCheck(success_uid))).out, el_lines.out)
                     ELSE <<>>)
                 \o combine_conditions_commands(
                        IF Len(str_conds) > 1
                        THEN CondCompile(FlagCheck(success_uid)).out
                        ELSE str_conds,
                        then_lines.out),
                 prefix),
     fs |-> el_lines.fs]

\* a slip of compile_pre_20_format: the then part is joined with the clauses
\* themselves also when there are several
Pre20CombineThenPerClause(el, prefix, str_conds, success_uid, then_lines, el_lines) ==
    [out |-> ApplyPrefix(
                 (IF Len(str_conds) > 1 \/ el # <<>>
                  THEN <<[use |-> FALSE, cmd |-> FlagRemove(success_uid)]>>
                  ELSE <<>>)
                 \o (IF Len(str_conds) > 1
                     THEN combine_conditions_commands(
                              str_conds,
                              <<[use |-> TRUE, cmd |-> "run " \o FlagWrite(success_uid)]>>)
                     ELSE <<>>)
                 \o combine_conditions_commands(str_conds, then_lines.out)
                 \o (IF el # <<>>
                     THEN combine_conditions_commands(
                              CondCompile(Not(FlagCheck(success_uid))).out, el_lines.out)
                     ELSE <<>>)
                 \o (IF Len(str_conds) > 1 \/ el # <<>>
                     THEN <<[use |-> FALSE, cmd |-> FlagRemove(success_uid)]>>
                     ELSE <<>>),
                 prefix),
     fs |-> el_lines.fs]

\* the last part of compile_pre_20_format: each_or_cmd, successful_cond, the
\* joins, reset_success_storage and the chain of all parts
Pre20Combine(el, prefix, str_conds, success_uid, then_lines, el_lines) ==
    LET \* Option<Vec<(bool, String)>>: the second component of each_or_cmd
        each_or_cmd ==
            IF Len(str_conds) > 1
            THEN <<combine_conditions_commands(
                      str_conds,
                      <<[use |-> TRUE, cmd |-> "run " \o FlagWrite(success_uid)]>>)>>
            ELSE <<>>
        successful_cond ==
            IF Len(str_conds) > 1
            THEN CondCompile(FlagCheck(success_uid)).out
            ELSE str_conds
        then_commands == combine_conditions_commands(successful_cond, then_lines.out)
        el_commands ==
            IF el # <<>>
            THEN combine_conditions_commands(
                     CondCompile(Not(FlagCheck(success_uid))).out, el_lines.out)
            ELSE <<>>
        reset_success_storage ==
            IF Len(str_conds) > 1 \/ el # <<>>
            THEN <<[use |-> FALSE, cmd |-> FlagRemove(success_uid)]>>
            ELSE <<>>
        each_or_lines == IF Len(str_conds) > 1 THEN each_or_cmd[1] ELSE <<>>
    IN [out |-> ApplyPrefix(reset_success_storage \o each_or_lines \o then_commands
                            \o el_commands \o reset_success_storage, prefix),
        fs |-> el_lines.fs]

\* the else part of compile_pre_20_format, once the then part is compiled
Pre20Else(el, prefix, options, str_conds, success_uid, then_lines) ==
    Pre20Combine(
        el, prefix, str_conds, success_uid, then_lines,
        IF el # <<>>
        THEN Call("compile_internal",
                  <<el[1], "", Len(CondCompile(Not(FlagCheck(success_uid))).out) > 1,
                    options, then_lines.fs>>)
        ELSE [out |-> <<>>, fs |-> then_lines.fs])

\* the then part of compile_pre_20_format, once the uid is decided
Pre20Then(then, el, prefix, options, str_conds, rg) ==
    Pre20Else(
        el, prefix, options, str_conds, SuccessUid(rg.uid),
        IF rg.uid # <<>>
        THEN [out |-> MapTrue(
                         Call("compile_group",
                              <<IF el # <<>> /\ Len(str_conds) <= 1
                                THEN Append(BranchCommands(then),
                                            Raw(FlagWrite(SuccessUid(rg.uid))))
                                ELSE BranchCommands(then),
                                options, rg.fs>>).out,
                         "run "),
              fs |-> Call("compile_group",
                          <<IF el # <<>> /\ Len(str_conds) <= 1
                            THEN Append(BranchCommands(then),
                                        Raw(FlagWrite(SuccessUid(rg.uid))))
                            ELSE BranchCommands(then),
                            options, rg.fs>>).fs]
        ELSE Call("compile_internal", <<then, "", FALSE, options, rg.fs>>))

\* compile_pre_20_format after then_count and str_cond are known
Pre20Counted(then, el, prefix, options, fs, then_count, str_conds) ==
    Pre20Then(then, el, prefix, options, str_conds.out,
              RequireGroupingUid(
                  el # <<>> \/ then_count.n > 1,
                  IF then_count.panicked \/ str_conds.panic THEN Panicked(fs) ELSE fs))

compile_pre_20_format(c, then, el, prefix, options, fs) ==
    Pre20Counted(then, el, prefix, options, fs,
                 Call("ExecuteGetCount", <<then, options>>), CondCompile(c))

\* compile_since_20_format after then_count and str_cond are known
Since20Counted(then, el, prefix, options, fs, then_count, str_conds) ==
    IF el # <<>> \/ Len(str_conds) > 1
    THEN LET group_cmds ==
                 Call("handle_return_group_case_since_20",
                      <<str_conds, then, el, prefix, options, fs>>)
             r == Call("compile_group", <<group_cmds.out, options, group_cmds.fs>>)
         IN [out |-> MapTrue(r.out, ""), fs |-> r.fs]
    ELSE IF then_count > 1
    THEN LET r == Call("compile_group", <<BranchCommands(then), options, fs>>)
         IN [out |-> ApplyPrefix(
                         combine_conditions_commands(str_conds, MapTrue(r.out, "run ")),
                         prefix),
             fs |-> r.fs]
    ELSE LET str_cmd == Call("compile_internal", <<then, "", FALSE, options, fs>>)
         IN [out |-> ApplyPrefix(
                         combine_conditions_commands(str_conds, str_cmd.out), prefix),
             fs |-> str_cmd.fs]

compile_since_20_format(c, then, el, prefix, options, fs) ==
    LET then_count == Call("ExecuteGetCount", <<then, options>>)
        str_conds == CondCompile(c)
    IN Since20Counted(then, el, prefix, options,
                      IF then_count.panicked \/ str_conds.panic THEN Panicked(fs) ELSE fs,
                      then_count.n, str_conds.out)

\* returns the Vec<Command> as out
handle_return_group_case_since_20(str_conds, then, el, prefix, options, fs) ==
    LET r == Call("compile_group", <<BranchCommands(then), options, fs>>)
        then_cmd_str == MapTrue(r.out, "run return run ")
        then_cond_str == combine_conditions_commands(str_conds, then_cmd_str)
        group_cmds ==
            [k \in 1..Len(then_cond_str) |-> Raw("execute " \o then_cond_str[k].cmd)]
    IN IF el # <<>>
       THEN LET e == Call("handle_else_since_20", <<el[1], prefix, options, r.fs>>)
            IN [out |-> group_cmds \o e.out, fs |-> e.fs]
       ELSE [out |-> group_cmds, fs |-> r.fs]

\* a slip of handle_else_since_20: a Guard wrapped in a Direct is kept as one
\* instruction instead of being flattened
handle_else_since_20_keeps_wrapped(el, prefix, options, fs) ==
    CASE el.t = "If" ->
            LET sc == CondCompile(el.cond)
            IN Call("handle_return_group_case_since_20", <<
                   sc.out, el.then, el.el, prefix, options,
                   IF sc.panic THEN Panicked(fs) ELSE fs>>)
      [] el.t = "Run" -> [out |-> <<el.cmd>>, fs |-> fs]
      [] el.t = "Runs" -> [out |-> el.cmds, fs |-> fs]
      [] OTHER -> [out |-> <<ExecuteCmd(el)>>, fs |-> fs]

\* returns el_cmd, the commands group_cmds is extended by, as out
handle_else_since_20(el, prefix, options, fs) ==
    CASE el.t = "If" ->
            LET sc == CondCompile(el.cond)
            IN Call("handle_return_group_case_since_20", <<
                   sc.out, el.then, el.el, prefix, options,
                   IF sc.panic THEN Panicked(fs) ELSE fs>>)
      [] el.t = "Run" ->
            IF el.cmd.t = "Execute" /\ el.cmd.ex.t = "If"
            THEN LET sc == CondCompile(el.cmd.ex.cond)
                 IN Call("handle_return_group_case_since_20", <<
                        sc.out, el.cmd.ex.then, el.cmd.ex.el, prefix, options,
                        IF sc.panic THEN Panicked(fs) ELSE fs>>)
            ELSE [out |-> <<el.cmd>>, fs |-> fs]
      [] el.t = "Runs" -> [out |-> el.cmds, fs |-> fs]
      [] OTHER -> [out |-> <<ExecuteCmd(el)>>, fs |-> fs]

Call(op, a) ==
    CASE op = "CommandCompile" -> CommandCompile(a[1], a[2], a[3])
      [] op = "CompileEach" -> CompileEach(a[1], a[2], a[3])
      [] op = "CommandGetCount" -> CommandGetCount(a[1], a[2])
      [] op = "SumGetCount" -> SumGetCount(a[1], a[2])
      [] op = "compile_group" -> compile_group(a[1], a[2], a[3])
      [] op = "ExecuteCompile" -> ExecuteCompile(a[1], a[2], a[3])
      [] op = "compile_internal" -> compile_internal(a[1], a[2], a[3], a[4], a[5])
      [] op = "ExecuteGetCount" -> ExecuteGetCount(a[1], a[2])
      [] op = "compile_if_cond" -> compile_if_cond(a[1], a[2], a[3], a[4], a[5], a[6])
      [] op = "compile_pre_20_format" ->
            compile_pre_20_format(a[1], a[2], a[3], a[4], a[5], a[6])
      [] op = "compile_since_20_format" ->
            compile_since_20_format(a[1], a[2], a[3], a[4], a[5], a[6])
      [] op = "handle_return_group_case_since_20" ->
            handle_return_group_case_since_20(a[1], a[2], a[3], a[4], a[5], a[6])
      [] op = "handle_else_since_20" -> handle_else_since_20(a[1], a[2], a[3], a[4])

----------------------------------------------------------------------------
(* Input conditions: every tree over Atoms with at most MaxOps connectives *)

Atoms == {"foo", "bar"}

RECURSIVE CondsWithOps(_)
CondsWithOps(k) ==
    IF k = 0 THEN {Atom(s) : s \in Atoms}
    ELSE {Not(c) : c \in CondsWithOps(k - 1)}
         \cup UNION {UNION {{And(a, b), Or(a, b)} :
                                a \in CondsWithOps(i), b \in CondsWithOps(k - 1 - i)} :
                     i \in 0..(k - 1)}

Conds == UNION {CondsWithOps(k) : k \in 0..MaxOps}

NoCond == Atom("")

----------------------------------------------------------------------------
(* The condition pipeline: normalize, normalize again, to_truth_table,     *)
(* compile, each applied to the input condition                            *)

ExecIdle ==
    /\ xcmd = Raw("")
    /\ xopts = [pack_format |-> 0, debug |-> FALSE]
    /\ xpc = "idle"
    /\ xres = [out |-> <<>>, fs |-> FunctionCompilerState("", "", <<>>)]

CondInit ==
    /\ ExecIdle
    /\ NsIdle
    /\ UidIdle
    /\ QueueIdle
    /\ ValidateIdle
    /\ FolderIdle
    /\ CountIdle
    /\ RunIdle
    /\ CombineIdle
    /\ cond \in Conds
    /\ cpc = "input"
    /\ norm = NoCond
    /\ renorm = NoCond
    /\ table = <<>>
    /\ strs = [panic |-> FALSE, out |-> <<>>]

Normalize ==
    /\ cpc = "input"
    /\ norm' = normalize(cond)
    /\ cpc' = "normalized"
    /\ UNCHANGED <<cond, renorm, table, strs, outsideCond>>

NormalizeAgain ==
    /\ cpc = "normalized"
    /\ renorm' = normalize(norm)
    /\ cpc' = "renormalized"
    /\ UNCHANGED <<cond, norm, table, strs, outsideCond>>

ToTruthTable ==
    /\ cpc = "renormalized"
    /\ table' = to_truth_table(cond)
    /\ cpc' = "tabled"
    /\ UNCHANGED <<cond, norm, renorm, strs, outsideCond>>

CompileCondition ==
    /\ cpc = "tabled"
    /\ strs' = CondCompile(cond)
    /\ cpc' = "compiled"
    /\ UNCHANGED <<cond, norm, renorm, table, outsideCond>>

CondNext == Normalize \/ NormalizeAgain \/ ToTruthTable \/ CompileCondition

SpecCond == CondInit /\ [][CondNext]_vars

----------------------------------------------------------------------------
(* Input commands of one Command::compile call *)

RECURSIVE SeqsUpTo(_, _)
\* the sequences over S of length at most n
SeqsUpTo(S, n) ==
    IF n = 0 THEN {<<>>}
    ELSE LET shorter == SeqsUpTo(S, n - 1)
         IN shorter \cup {Append(q, x) : q \in shorter, x \in S}

\* literal texts: one line, two lines, a comment line, an empty line
RawTexts == {"say hi", "say a\nsay b", "#note", ""}

LeafCommands == {Raw(s) : s \in RawTexts} \cup {Comment("c"), Debug("dbg")}

ListCommands == {Raw("say hi"), Comment("c"), Debug("dbg")}

\* Direct and DirectSequence terminals
Terminals ==
    {Run(c) : c \in LeafCommands} \cup {Runs(q) : q \in SeqsUpTo(ListCommands, MaxCmds)}

foo == Atom("foo")
bar == Atom("bar")

GuardConds == {foo, Not(foo), And(foo, Not(bar)), Or(foo, bar), Not(Not(foo)), Not(And(foo, bar))}

ElseBranches ==
    {<<>>, <<Run(Raw("say no"))>>, <<Run(Comment("c"))>>,
     <<Runs(<<Raw("say no"), Raw("say more")>>)>>}

\* a guard over terminals
Guards == {If(c, then, el) : c \in GuardConds, then \in Terminals, el \in ElseBranches}

InnerGuards ==
    {If(c, then, el) : c \in {foo, Or(foo, bar)},
                       then \in {Run(Raw("say hi")), Runs(<<Raw("say hi"), Raw("say ho")>>)},
                       el \in {<<>>, <<Run(Raw("say no"))>>}}

\* a guard whose branch is itself a guard, bare or wrapped in a Direct
NestedGuards ==
    UNION {{If(c, Run(Raw("say yes")), <<g>>),
            If(c, Run(Raw("say yes")), <<Run(ExecuteCmd(g))>>),
            If(c, g, <<Run(Raw("say no"))>>)} : c \in {bar}, g \in InnerGuards}

ChainEnds == Terminals \cup Guards \cup NestedGuards

ModifierHeads == {<<"As", "@a">>, <<"Summon", "pig">>, <<"AsAt", "@p">>}

RECURSIVE Chains(_)
\* the executes with at most n modifiers in front of a chain end
Chains(n) ==
    IF n = 0 THEN ChainEnds
    ELSE LET shorter == Chains(n - 1)
         IN shorter \cup {Modifier(m[1], m[2], ex) : m \in ModifierHeads, ex \in shorter}

GroupChildren ==
    {Raw("say hi"), Raw("say a\nsay b"), Comment("c"), Debug("dbg"),
     Group(<<Raw("say hi"), Raw("say ho")>>), Group(<<Raw("say hi")>>),
     ExecuteCmd(If(foo, Run(Raw("say hi")), <<Run(Raw("say no"))>>)),
     ExecuteCmd(Modifier("As", "@a", Run(Raw("say hi"))))}

\* a guard standing in an else branch, bare (w = FALSE) or wrapped in a Direct
ElseOf(w, g) == IF w THEN <<Run(ExecuteCmd(g))>> ELSE <<g>>

\* else-if chains of three Guards
DeepGuards ==
    {If(foo, Run(Raw("say yes")),
        ElseOf(w1, If(bar, Run(Raw("say hi")),
                      ElseOf(w2, If(Or(foo, bar), Runs(<<Raw("say hi"), Raw("say ho")>>), el))))) :
        w1 \in BOOLEAN, w2 \in BOOLEAN,
        el \in {<<>>, <<Runs(<<Raw("say no"), Raw("say more")>>)>>}}

InputCommands ==
    {ExecuteCmd(ex) : ex \in Chains(MaxMods)}
    \cup {Group(q) : q \in SeqsUpTo(GroupChildren, MaxCmds)}
    \cup LeafCommands
    \cup {ExecuteCmd(ex) : ex \in DeepGuards}

\* pack formats on both sides of ReturnFormat
PackFormats == {ReturnFormat - 1, ReturnFormat}

InputOptions == [pack_format : PackFormats, debug : BOOLEAN]

\* the state of the function being compiled when the call is made
CallerState == FunctionCompilerState("main", "ns", <<>>)

----------------------------------------------------------------------------
(* One Command::compile call on a fresh FunctionCompilerState *)

CondIdle ==
    /\ cond = NoCond
    /\ cpc = "idle"
    /\ norm = NoCond
    /\ renorm = NoCond
    /\ table = <<>>
    /\ strs = [panic |-> FALSE, out |-> <<>>]

ExecInit ==
    /\ CondIdle
    /\ NsIdle
    /\ UidIdle
    /\ QueueIdle
    /\ ValidateIdle
    /\ FolderIdle
    /\ CountIdle
    /\ RunIdle
    /\ CombineIdle
    /\ xcmd \in InputCommands
    /\ xopts \in InputOptions
    /\ xpc = "input"
    /\ xres = [out |-> <<>>, fs |-> CallerState]

Compile ==
    /\ xpc = "input"
    /\ xres' = CommandCompile(xcmd, xopts, xres.fs)
    /\ xpc' = "compiled"
    /\ UNCHANGED <<xcmd, xopts, outsideExec>>

ExecNext == Compile

SpecExec == ExecInit /\ [][ExecNext]_vars

----------------------------------------------------------------------------
(* Namespace::compile: the functions of the namespace are collected into   *)
(* the queue and compiled one by one, while compiling pushes further       *)
(* functions onto the same queue                                           *)

\* VecDeque::push_back
push_back(q, value) == Append(q, value)

\* VecDeque::extend
extend(q, iter) == q \o iter

\* a slip of pop_front: the element is handed out but stays in the queue
pop_front_keeps(q) ==
    IF q = <<>> THEN [item |-> <<>>, q |-> q] ELSE [item |-> <<Head(q)>>, q |-> q]

\* VecDeque::pop_front: [item, q], item the Option returned
pop_front(q) ==
    IF q = <<>> THEN [item |-> <<>>, q |-> q] ELSE [item |-> <<Head(q)>>, q |-> Tail(q)]

\* names of the functions the user has put into the namespace
UserNames == {"foo", "sb/foo", "bar"}

hi == Raw("say hi")
ho == Raw("say ho")

\* the command lists of the user's functions: nothing to hoist, one group,
\* two groups, a group whose function holds a group again, an if/else, groups
\* three deep, an if/else under summon whose branches hoist
UserBodies ==
    {<<hi>>,
     <<Group(<<hi, ho>>)>>,
     <<Group(<<hi, ho>>), Group(<<ho, hi>>)>>,
     <<Group(<<Group(<<hi, ho>>), ho>>)>>,
     <<ExecuteCmd(If(foo, Runs(<<hi, ho>>), <<Run(Raw("say no"))>>))>>,
     <<Group(<<Group(<<Group(<<hi, ho>>), ho>>), hi>>)>>,
     <<ExecuteCmd(Modifier("Summon", "pig",
          If(Or(foo, bar), Runs(<<hi, Group(<<hi, ho>>)>>), <<Runs(<<ho, hi>>)>>)))>>}

\* the maps name -> Function a namespace of at most MaxFunctions functions holds
UserFunctions ==
    UNION {[names -> UserBodies] :
              names \in {n \in SUBSET UserNames : Cardinality(n) \in 1..MaxFunctions}}

\* the orders in which HashMap::iter may hand out the entries of map m
IterOrders(m) ==
    {q \in [1..Cardinality(DOMAIN m) -> DOMAIN m] :
        \A i, j \in 1..Cardinality(DOMAIN m) : i # j => q[i] # q[j]}

RECURSIVE JoinLines(_)
\* lines.join("\n")
JoinLines(lines) ==
    IF lines = <<>> THEN ""
    ELSE IF Len(lines) = 1 THEN lines[1]
    ELSE lines[1] \o "\n" \o JoinLines(Tail(lines))

\* pack_format::function_directory_name
function_directory_name(pack_format) ==
    IF pack_format < 45 THEN "functions" ELSE "function"

\* VFolder::add_file on the folder seen as the map path -> content
add_file(folder, path, file) ==
    [q \in (DOMAIN folder) \cup {path} |-> IF q = path THEN file ELSE folder[q]]

\* .collect::<Vec<String>>().join("\n") and VFile::Text(content), next to the
\* state the compile left: [content, fs]
TextFile(r) == [content |-> JoinLines(r.out), fs |-> r.fs]

\* Function::compile: [content, fs], content the text of the VFile
FunctionCompile(function, options, fs) ==
    TextFile(Call("CompileEach", <<function.commands, options, fs>>))

NsInit ==
    /\ CondIdle
    /\ ExecIdle
    /\ UidIdle
    /\ QueueIdle
    /\ ValidateIdle
    /\ FolderIdle
    /\ CountIdle
    /\ RunIdle
    /\ CombineIdle
    /\ ns \in {[name |-> "ns", functions |-> m] : m \in UserFunctions}
    /\ nopts \in InputOptions
    /\ npc = "collect"
    /\ queue = <<>>
    /\ root_folder = <<>>
    /\ pushed = <<>>

\* lines 90-98: the functions are cloned into the queue, in iteration order
CollectFunctions ==
    /\ npc = "collect"
    /\ \E order \in IterOrders(ns.functions) :
          queue' = [k \in 1..Len(order) |->
                       <<order[k], Function(ns.name, order[k], ns.functions[order[k]])>>]
    /\ npc' = "drain"
    /\ UNCHANGED <<ns, nopts, root_folder, pushed, outsideNs>>

\* root_folder.add_file(.., function.compile(..)) of the loop body, r being
\* what function.compile returned and left behind
AddCompiled(path, r) ==
    /\ queue' = r.fs.functions
    /\ pushed' = pushed \o [k \in 1..(Len(r.fs.functions) - Len(queue) + 1) |->
                               r.fs.functions[Len(queue) - 1 + k][1]]
    /\ root_folder' =
           add_file(root_folder,
                    function_directory_name(nopts.pack_format) \o "/" \o path
                        \o ".mcfunction",
                    r.content)
    /\ npc' = IF r.fs.panicked THEN "panicked" ELSE "drain"

\* one turn of the while loop: the front function is taken off the queue and
\* compiled against a new FunctionCompilerState sharing the queue
CompileFunction ==
    /\ npc = "drain"
    /\ queue # <<>>
    /\ AddCompiled(Head(queue)[1],
                   FunctionCompile(Head(queue)[2], nopts,
                                   FunctionCompilerState(Head(queue)[1], ns.name,
                                                         Tail(queue))))
    /\ UNCHANGED <<ns, nopts, outsideNs>>

\* a slip of the loop condition: None does not end the loop
IsNoneNever(option) == FALSE

\* the else of `while let Some(..) = ..`
IsNone(option) == option = <<>>

\* functions.next() returns None: the loop ends (the namespaces modelled hold
\* no tags)
FinishNamespace ==
    /\ npc = "drain"
    /\ IsNone(pop_front(queue).item)
    /\ npc' = "done"
    /\ UNCHANGED <<ns, nopts, queue, root_folder, pushed, outsideNs>>

NsNext == CollectFunctions \/ CompileFunction \/ FinishNamespace

SpecNamespace == NsInit /\ [][NsNext]_vars

\* weak fairness of CompileFunction, written out: the loop body can be taken
\* exactly when npc = "drain" and the queue is not empty, and it is the only
\* step NsNext allows there
LoopBodyFair ==
    \/ []<>(~(npc = "drain" /\ queue # <<>>))
    \/ []<><<npc = "drain" /\ queue # <<>>>>_vars

\* Namespace::compile runs on one thread that keeps going: a step that can be
\* taken is taken
SpecNamespaceFair ==
    /\ SpecNamespace
    /\ WF_vars(CollectFunctions)
    /\ LoopBodyFair
    /\ WF_vars(FinishNamespace)

----------------------------------------------------------------------------
(* request_uid called by several threads on one FunctionCompilerState      *)

Threads == 1..MaxThreads

\* a slip of the mutex: lock() succeeds while another thread holds the guard
MutexFreeAlways(h) == TRUE

\* Mutex::lock returns once no thread holds the guard
MutexFree(h) == h = NoThread

UidInit ==
    /\ CondIdle
    /\ ExecIdle
    /\ NsIdle
    /\ QueueIdle
    /\ ValidateIdle
    /\ FolderIdle
    /\ CountIdle
    /\ RunIdle
    /\ CombineIdle
    /\ uid_counter = 0
    /\ holder = NoThread
    /\ tpc = [t \in Threads |-> "idle"]
    /\ uid = [t \in Threads |-> 0]
    /\ calls = [t \in Threads |-> 0]
    /\ returned = <<>>

\* let mut guard = self.uid_counter.lock().unwrap();
Lock(t) ==
    /\ tpc[t] = "idle"
    /\ calls[t] < MaxCalls
    /\ MutexFree(holder)
    /\ holder' = t
    /\ tpc' = [tpc EXCEPT ![t] = "locked"]
    /\ calls' = [calls EXCEPT ![t] = @ + 1]
    /\ UNCHANGED <<uid_counter, uid, returned, outsideUid>>

\* let uid = *guard;
ReadCounter(t) ==
    /\ tpc[t] = "locked"
    /\ uid' = [uid EXCEPT ![t] = uid_counter]
    /\ tpc' = [tpc EXCEPT ![t] = "read"]
    /\ UNCHANGED <<uid_counter, holder, calls, returned, outsideUid>>

\* *guard += 1;
Increment(t) ==
    /\ tpc[t] = "read"
    /\ uid_counter' = uid_counter + 1
    /\ tpc' = [tpc EXCEPT ![t] = "incremented"]
    /\ UNCHANGED <<holder, uid, calls, returned, outsideUid>>

\* uid: the guard is dropped and the local value returned
Return(t) ==
    /\ tpc[t] = "incremented"
    /\ holder' = IF holder = t THEN NoThread ELSE holder
    /\ returned' = Append(returned, [thread |-> t, uid |-> uid[t]])
    /\ tpc' = [tpc EXCEPT ![t] = "idle"]
    /\ UNCHANGED <<uid_counter, uid, calls, outsideUid>>

UidNext == \E t \in Threads : Lock(t) \/ ReadCounter(t) \/ Increment(t) \/ Return(t)

SpecUid == UidInit /\ [][UidNext]_vars

----------------------------------------------------------------------------
(* ExtendableQueue: one VecDeque behind Arc<RwLock<..>>, used by several   *)
(* threads through clones of the handle                                    *)

\* RwLock::write returns once no thread holds the lock
WriteFree(w) == w = NoThread

\* the queues ExtendableQueue::from and ::default start with
InitialDeques == {<<>>, <<1>>}

\* the operations a caller may start when fresh is the next unused value
QueueCalls(next_value) ==
    {[name |-> "next", items |-> <<>>], [name |-> "pop_front", items |-> <<>>],
     [name |-> "extend", items |-> <<>>]}
    \cup (IF next_value <= MaxElems
          THEN {[name |-> "push", items |-> <<next_value>>]} ELSE {})
    \cup (IF next_value + 1 <= MaxElems
          THEN {[name |-> "extend", items |-> <<next_value, next_value + 1>>]} ELSE {})

QueueInit ==
    /\ CondIdle
    /\ ExecIdle
    /\ NsIdle
    /\ UidIdle
    /\ ValidateIdle
    /\ FolderIdle
    /\ CountIdle
    /\ RunIdle
    /\ CombineIdle
    /\ deque \in InitialDeques
    /\ writer = NoThread
    /\ qpc = [t \in Threads |-> "idle"]
    /\ qop = [t \in Threads |-> [name |-> "next", items |-> <<>>]]
    /\ got = [t \in Threads |-> <<>>]
    /\ ops = [t \in Threads |-> 0]
    /\ fresh = Len(deque) + 1
    /\ appended = deque
    /\ taken = <<>>

\* a thread calls push, extend, next or pop_front on its clone of the handle
StartCall(t) ==
    /\ qpc[t] = "idle"
    /\ ops[t] < MaxQueueOps
    /\ \E call \in QueueCalls(fresh) :
          /\ qop' = [qop EXCEPT ![t] = call]
          /\ fresh' = fresh + Len(call.items)
    /\ qpc' = [qpc EXCEPT ![t] = "calling"]
    /\ ops' = [ops EXCEPT ![t] = @ + 1]
    /\ UNCHANGED <<deque, writer, got, appended, taken, outsideQueue>>

\* self.queue.write().unwrap()
AcquireWrite(t) ==
    /\ qpc[t] = "calling"
    /\ WriteFree(writer)
    /\ writer' = t
    /\ qpc' = [qpc EXCEPT ![t] = "locked"]
    /\ UNCHANGED <<deque, qop, got, ops, fresh, appended, taken, outsideQueue>>

\* push: .push_back(value)
Push(t) ==
    /\ qpc[t] = "locked"
    /\ qop[t].name = "push"
    /\ deque' = push_back(deque, qop[t].items[1])
    /\ appended' = Append(appended, qop[t].items[1])
    /\ qpc' = [qpc EXCEPT ![t] = "applied"]
    /\ UNCHANGED <<writer, qop, got, ops, fresh, taken, outsideQueue>>

\* Extend::extend: .extend(iter)
Extend(t) ==
    /\ qpc[t] = "locked"
    /\ qop[t].name = "extend"
    /\ deque' = extend(deque, qop[t].items)
    /\ appended' = appended \o qop[t].items
    /\ qpc' = [qpc EXCEPT ![t] = "applied"]
    /\ UNCHANGED <<writer, qop, got, ops, fresh, taken, outsideQueue>>

\* next and pop_front once the lock is held: .pop_front(), r being its result
TakeFront(t, r) ==
    /\ deque' = r.q
    /\ got' = [got EXCEPT ![t] = r.item]
    /\ taken' = taken \o r.item
    /\ qpc' = [qpc EXCEPT ![t] = "applied"]

\* Iterator::next
IteratorNext(t) ==
    /\ qpc[t] = "locked"
    /\ qop[t].name = "next"
    /\ TakeFront(t, pop_front(deque))
    /\ UNCHANGED <<writer, qop, ops, fresh, appended, outsideQueue>>

\* ExtendableQueue::pop_front
PopFront(t) ==
    /\ qpc[t] = "locked"
    /\ qop[t].name = "pop_front"
    /\ TakeFront(t, pop_front(deque))
    /\ UNCHANGED <<writer, qop, ops, fresh, appended, outsideQueue>>

\* the write guard is dropped at the end of the statement and the call returns
ReleaseWrite(t) ==
    /\ qpc[t] = "applied"
    /\ writer' = IF writer = t THEN NoThread ELSE writer
    /\ qpc' = [qpc EXCEPT ![t] = "idle"]
    /\ UNCHANGED <<deque, qop, got, ops, fresh, appended, taken, outsideQueue>>

QueueNext ==
    \E t \in Threads :
        \/ StartCall(t)
        \/ AcquireWrite(t)
        \/ Push(t)
        \/ Extend(t)
        \/ IteratorNext(t)
        \/ PopFront(t)
        \/ ReleaseWrite(t)

SpecQueue == QueueInit /\ [][QueueNext]_vars

----------------------------------------------------------------------------
(* validate: Command::validate, Execute::validate and validate_raw_cmd     *)

\* Datapack::LATEST_FORMAT
LATEST == 48

\* the greatest u8
MaxFormat == 255

ANY == [start |-> 0, end |-> LATEST]
to(format) == [start |-> 0, end |-> format]
from(format) == [start |-> format, end |-> LATEST]

ANY_CMD ==
    {"advancement", "ban", "ban-ip", "banlist", "clear", "clone", "debug",
     "defaultgamemode", "deop", "difficulty", "effect", "enchant", "execute",
     "experience", "fill", "gamemode", "gamerule", "give", "help", "kick", "kill",
     "list", "locate", "me", "msg", "op", "pardon", "pardon-ip", "particle",
     "playsound", "publish", "recipe", "reload", "save-all", "save-off", "save-on",
     "say", "scoreboard", "seed", "setblock", "setidletimeout", "setworldspawn",
     "spawnpoint", "spreadplayers", "stop", "stopsound", "summon", "teleport",
     "tell", "tellraw", "time", "title", "tp", "trigger", "w", "weather",
     "whitelist", "worldborder", "xp"}

\* the commands inserted one by one, with their ranges
VersionedCmds ==
    {<<"attribute", from(6)>>, <<"bossbar", from(4)>>, <<"damage", from(12)>>,
     <<"data", from(4)>>, <<"datapack", from(4)>>, <<"fillbiome", from(12)>>,
     <<"forceload", from(4)>>, <<"function", from(4)>>, <<"replaceitem", to(6)>>,
     <<"item", from(7)>>, <<"jfr", from(8)>>, <<"loot", from(4)>>,
     <<"perf", from(7)>>, <<"place", from(10)>>,
     <<"placefeature", [start |-> 9, end |-> 9]>>, <<"random", from(18)>>,
     <<"return", from(15)>>, <<"ride", from(12)>>, <<"schedule", from(4)>>,
     <<"spectate", from(5)>>, <<"tag", from(4)>>, <<"team", from(4)>>,
     <<"teammsg", from(4)>>, <<"tick", from(22)>>, <<"tm", from(4)>>,
     <<"transfer", from(41)>>}

\* CMD_FORMATS: the map from command to the formats it exists in
CMD_FORMATS ==
    [c \in ANY_CMD \cup {p[1] : p \in VersionedCmds} |->
        IF c \in ANY_CMD THEN ANY
        ELSE (CHOOSE p \in VersionedCmds : p[1] = c)[2]]

\* u8::is_ascii_whitespace
IsAsciiWhitespace(ch) == ch \in {" ", "\t", "\n", "\f", "\r"}

RECURSIVE SkipWhitespace(_)
SkipWhitespace(s) ==
    IF s # "" /\ IsAsciiWhitespace(SubSeq(s, 1, 1))
    THEN SkipWhitespace(SubSeq(s, 2, Len(s)))
    ELSE s

RECURSIVE TokenLength(_)
\* the length of the longest prefix of s free of whitespace
TokenLength(s) ==
    IF s = "" \/ IsAsciiWhitespace(SubSeq(s, 1, 1)) THEN 0
    ELSE 1 + TokenLength(SubSeq(s, 2, Len(s)))

\* cmd.split_ascii_whitespace().next(): the Option of the first token
FirstToken(cmd) ==
    IF SkipWhitespace(cmd) = "" THEN <<>>
    ELSE <<SubSeq(SkipWhitespace(cmd), 1, TokenLength(SkipWhitespace(cmd)))>>

\* a slip of validate_raw_cmd: the ranges only have to overlap
validate_raw_cmd_overlap(cmd, pack_formats) ==
    IF FirstToken(cmd) = <<>> THEN TRUE
    ELSE IF FirstToken(cmd)[1] \notin DOMAIN CMD_FORMATS THEN TRUE
    ELSE /\ CMD_FORMATS[FirstToken(cmd)[1]].start <= pack_formats.end
         /\ CMD_FORMATS[FirstToken(cmd)[1]].end >= pack_formats.start

validate_raw_cmd(cmd, pack_formats) ==
    IF FirstToken(cmd) = <<>> THEN TRUE
    ELSE IF FirstToken(cmd)[1] \notin DOMAIN CMD_FORMATS THEN TRUE
    ELSE /\ CMD_FORMATS[FirstToken(cmd)[1]].start <= pack_formats.start
         /\ CMD_FORMATS[FirstToken(cmd)[1]].end >= pack_formats.end

RECURSIVE CommandValidate(_, _)
RECURSIVE ExecuteValidate(_, _)

\* Command::validate
CommandValidate(self, pack_formats) ==
    CASE self.t \in {"Comment", "Debug", "Group"} -> TRUE
      [] self.t = "Raw" -> validate_raw_cmd(self.s, pack_formats)
      [] self.t = "Execute" -> ExecuteValidate(self.ex, pack_formats)

\* Execute::validate
ExecuteValidate(self, pack_formats) ==
    CASE self.t = "Run" -> CommandValidate(self.cmd, pack_formats)
      [] self.t = "Runs" ->
            \A k \in 1..Len(self.cmds) : CommandValidate(self.cmds[k], pack_formats)
      [] self.t \in {"Facing", "Store", "Positioned", "Rotated", "In", "As", "At",
                     "AsAt", "Align", "Anchored"} ->
            pack_formats.start >= 4 /\ ExecuteValidate(self.next, pack_formats)
      [] self.t = "If" ->
            /\ pack_formats.start >= 4
            /\ ExecuteValidate(self.then, pack_formats)
            /\ (self.el # <<>> => ExecuteValidate(self.el[1], pack_formats))
      [] self.t \in {"Summon", "On"} ->
            pack_formats.start >= 12 /\ ExecuteValidate(self.next, pack_formats)

\* literal texts: the ones of test_validate, no token, an unknown verb, leading
\* whitespace, a verb that ends, a verb of one format, a late verb, two lines
ValidateTexts ==
    {"tag @s add foo", "kill @p", "", "  ", "foo bar", "\t say hi", "replaceitem x",
     "placefeature x", "tick 1", "say hi\ntick 1"}

tag == Raw("tag @s add foo")
kill == Raw("kill @p")
tick == Raw("tick 1")

\* executes over the literals tag, kill and tick
ValidateExecutes ==
    LET leaves == {Run(tag), Run(kill), Runs(<<kill, tick>>), Run(Group(<<kill, tick>>)),
                   Run(Comment("c"))}
        guards == {If(foo, a, <<>>) : a \in leaves}
                  \cup {If(foo, Run(kill), <<b>>) : b \in leaves}
        ends == leaves \cup guards
    IN ends \cup {Modifier(m, "x", e) : m \in {"As", "Summon", "On", "AsAt"}, e \in ends}

ValidateCommands ==
    {Raw(s) : s \in ValidateTexts}
    \cup {Comment("c"), Debug("dbg"), Group(<<kill, tick>>), Group(<<kill>>),
          Group(<<ExecuteCmd(Modifier("Summon", "pig", Run(kill)))>>)}
    \cup {ExecuteCmd(e) : e \in ValidateExecutes}

\* starts and ends of the supported range; MaxFormats bounds how many of them
FormatSamples == {0, 2, 4, 5, 6, 9, 11, 12, 21, 22, 40, LATEST, MaxFormat}

RECURSIVE Smallest(_, _)
\* the n smallest members of the set of numbers S
Smallest(S, n) ==
    IF n = 0 \/ S = {} THEN {}
    ELSE LET least == CHOOSE x \in S : \A y \in S : x <= y
         IN {least} \cup Smallest(S \ {least}, n - 1)

PackFormatRanges ==
    [start : Smallest(FormatSamples, MaxFormats), end : Smallest(FormatSamples, MaxFormats)]

ValidateInit ==
    /\ CondIdle
    /\ ExecIdle
    /\ NsIdle
    /\ UidIdle
    /\ QueueIdle
    /\ FolderIdle
    /\ CountIdle
    /\ RunIdle
    /\ CombineIdle
    /\ vcmd \in ValidateCommands
    /\ vrange \in PackFormatRanges
    /\ vpc = "input"
    /\ vres = FALSE

Validate ==
    /\ vpc = "input"
    /\ vres' = CommandValidate(vcmd, vrange)
    /\ vpc' = "validated"
    /\ UNCHANGED <<vcmd, vrange, outsideValidate>>

ValidateNext == Validate

SpecValidate == ValidateInit /\ [][ValidateNext]_vars

----------------------------------------------------------------------------
(* VFolder: a folder is [folders, files], each a map from a name to its entry *)

\* VFolder::new()
NewFolder == [folders |-> <<>>, files |-> <<>>]

\* HashMap::insert: the entry of key is replaced or added
Insert(map, key, value) ==
    [k \in DOMAIN map \cup {key} |-> IF k = key THEN value ELSE map[k]]

\* position of the first '/' of path, 0 if there is none
FirstSlash(path) ==
    IF CountChar(path, "/") = 0 THEN 0
    ELSE CHOOSE i \in 1..Len(path) :
             /\ SubSeq(path, i, i) = "/"
             /\ \A j \in 1..(i - 1) : SubSeq(path, j, j) # "/"

\* path.split_once('/').map_or((path, None), |(h, t)| (h, (!t.is_empty()).then_some(t)))
SplitHead(path, slash) ==
    IF slash = 0
    THEN [head |-> path, tail |-> <<>>]
    ELSE [head |-> SubSeq(path, 1, slash - 1),
          tail |-> IF slash = Len(path) THEN <<>>
                   ELSE <<SubSeq(path, slash + 1, Len(path))>>]

RECURSIVE add_existing_folder(_, _, _)
\* the branches of add_existing_folder, sp being the split path
AddSplit(self, path, folder, sp) ==
    IF sp.tail # <<>>
    THEN IF sp.head \in DOMAIN self.folders
         \* subfolder.add_folder(tail)
         THEN [self EXCEPT !.folders =
                   Insert(self.folders, sp.head,
                          add_existing_folder(self.folders[sp.head], sp.tail[1], NewFolder))]
         \* new_folder.add_folder(tail); self.add_existing_folder(head, new_folder)
         ELSE add_existing_folder(self, sp.head,
                                  add_existing_folder(NewFolder, sp.tail[1], NewFolder))
    ELSE [self EXCEPT !.folders = Insert(self.folders, path, folder)]

add_existing_folder(self, path, folder) ==
    AddSplit(self, path, folder, SplitHead(path, FirstSlash(path)))

add_folder(self, path) == add_existing_folder(self, path, NewFolder)

RECURSIVE get_folder(_, _)
\* the branches of get_folder, sp being the split path; None is <<>>
GetSplit(self, path, sp) ==
    IF sp.tail # <<>>
    THEN IF sp.head \in DOMAIN self.folders
         THEN get_folder(self.folders[sp.head], sp.tail[1])
         ELSE <<>>
    ELSE IF path \in DOMAIN self.folders THEN <<self.folders[path]>> ELSE <<>>

get_folder(self, path) == GetSplit(self, path, SplitHead(path, FirstSlash(path)))

\* slash-separated paths: one name, nested, with a trailing slash
FolderPaths == {"a", "b", "a/b", "a/b/c", "a/"}

\* folders handed to add_existing_folder: empty, holding a file, holding a folder
ArgFolders ==
    {NewFolder,
     [folders |-> <<>>, files |-> Insert(<<>>, "f.txt", "text")],
     [folders |-> Insert(<<>>, "d", NewFolder), files |-> <<>>]}

FolderInit ==
    /\ CondIdle
    /\ ExecIdle
    /\ NsIdle
    /\ UidIdle
    /\ QueueIdle
    /\ ValidateIdle
    /\ CountIdle
    /\ RunIdle
    /\ CombineIdle
    /\ vfolder = NewFolder
    /\ fop = ""
    /\ fpath = ""
    /\ farg = NewFolder
    /\ adds = 0
    /\ fpc = "added"
    /\ asked = ""
    /\ found = <<>>

AddFolder ==
    /\ adds < MaxAdds
    /\ \E path \in FolderPaths :
        /\ vfolder' = add_folder(vfolder, path)
        /\ fpath' = path
    /\ fop' = "add_folder"
    /\ farg' = NewFolder
    /\ adds' = adds + 1
    /\ fpc' = "added"
    /\ UNCHANGED <<asked, found, outsideFolder>>

AddExistingFolder ==
    /\ adds < MaxAdds
    /\ \E path \in FolderPaths, folder \in ArgFolders :
        /\ vfolder' = add_existing_folder(vfolder, path, folder)
        /\ fpath' = path
        /\ farg' = folder
    /\ fop' = "add_existing_folder"
    /\ adds' = adds + 1
    /\ fpc' = "added"
    /\ UNCHANGED <<asked, found, outsideFolder>>

GetFolder ==
    /\ fpc = "added"
    /\ \E path \in FolderPaths :
        /\ asked' = path
        /\ found' = get_folder(vfolder, path)
    /\ fpc' = "got"
    /\ UNCHANGED <<vfolder, fop, fpath, farg, adds, outsideFolder>>

FolderNext == AddFolder \/ AddExistingFolder \/ GetFolder

SpecFolder == FolderInit /\ [][FolderNext]_vars

\* a slip of get_count: the count compiles against the state of the caller
CountFromShared(self, options, enclosing) ==
    [n |-> Len(Call("compile_internal", <<self, "", FALSE, options, enclosing>>).out),
     fs |-> Call("compile_internal", <<self, "", FALSE, options, enclosing>>).fs]

----------------------------------------------------------------------------
(* Execute::get_count called from inside a compile that has its own state *)

\* get_count seen from the enclosing compile: the count, and the enclosing
\* FunctionCompilerState after it.  get_count is handed no state: it builds
\* its own and compiles against that
CountFrom(self, options, enclosing) ==
    [n |-> Call("ExecuteGetCount", <<self, options>>).n, fs |-> enclosing]

\* the branches counted: terminals, guards, and a Direct of a two-line Group
CountedBranches ==
    Terminals \cup Guards
    \cup {Run(Group(<<Raw("say hi"), Raw("say ho")>>)),
          Modifier("Summon", "pig", Runs(<<Raw("say hi"), Raw("say ho")>>))}

\* states of the enclosing compile: fresh, one id taken, one function pushed
EnclosingStates ==
    {CallerState,
     request_uid(CallerState).fs,
     add_function(request_uid(CallerState).fs, "sb/main/x",
                  Function("ns", "sb/main/x", <<Raw("say hi"), Raw("say ho")>>))}

CountInit ==
    /\ CondIdle
    /\ ExecIdle
    /\ NsIdle
    /\ UidIdle
    /\ QueueIdle
    /\ ValidateIdle
    /\ FolderIdle
    /\ RunIdle
    /\ CombineIdle
    /\ kex \in CountedBranches
    /\ kopts \in InputOptions
    /\ kfs \in EnclosingStates
    /\ kbefore = kfs
    /\ kn = 0
    /\ kpc = "input"

\* let then_count = then.get_count(options);
GetCount ==
    /\ kpc = "input"
    /\ kn' = CountFrom(kex, kopts, kfs).n
    /\ kfs' = CountFrom(kex, kopts, kfs).fs
    /\ kpc' = "counted"
    /\ UNCHANGED <<kex, kopts, kbefore, outsideCount>>

CountNext == GetCount

SpecCount == CountInit /\ [][CountNext]_vars

----------------------------------------------------------------------------
(* The lines of a compiled Guard run by the game, top to bottom.  A state   *)
(* st is [store, trace]: the keys set in storage shulkerbox:cond and the    *)
(* instructions run so far.  atoms are the conditions that hold.            *)

\* the value of a Condition when exactly the atoms in atoms hold
RECURSIVE EvalCondition(_, _)
EvalCondition(c, atoms) ==
    CASE c.t = "Atom" -> c.s \in atoms
      [] c.t = "Not" -> ~EvalCondition(c.c, atoms)
      [] c.t = "And" -> EvalCondition(c.a, atoms) /\ EvalCondition(c.b, atoms)
      [] c.t = "Or" -> EvalCondition(c.a, atoms) \/ EvalCondition(c.b, atoms)

StorageLead == "data storage shulkerbox:cond {"

\* the test at the head of tests, "<atom>" or "data storage shulkerbox:cond
\* {<key>:1b}", as [value, rest]
HeadTest(tests, atoms, keys) ==
    IF StartsWith(tests, StorageLead)
    THEN [value |-> SubSeq(tests, Len(StorageLead) + 1,
                           Len(StorageLead) + TokenLength(SubSeq(tests, Len(StorageLead) + 1, Len(tests))) - 4)
                    \in keys,
          rest |-> SubSeq(tests,
                          Len(StorageLead) + TokenLength(SubSeq(tests, Len(StorageLead) + 1, Len(tests))) + 2,
                          Len(tests))]
    ELSE [value |-> SubSeq(tests, 1, TokenLength(tests)) \in atoms,
          rest |-> SubSeq(tests, TokenLength(tests) + 2, Len(tests))]

RECURSIVE ParseExecute(_, _, _)
\* the tests after "if " (wanted = TRUE) or "unless " (wanted = FALSE), head
\* being the first test as [value, rest]
ParseTest(wanted, head, atoms, keys) ==
    IF head.value = wanted
    THEN ParseExecute(head.rest, atoms, keys)
    ELSE [holds |-> FALSE, cmd |-> ""]

\* what follows "execute ": "if <test> " and "unless <test> " parts, then
\* "run <command>", as [holds, cmd]
ParseExecute(rest, atoms, keys) ==
    IF StartsWith(rest, "run ")
    THEN [holds |-> TRUE, cmd |-> SubSeq(rest, 5, Len(rest))]
    ELSE IF StartsWith(rest, "if ")
    THEN ParseTest(TRUE, HeadTest(SubSeq(rest, 4, Len(rest)), atoms, keys), atoms, keys)
    ELSE IF StartsWith(rest, "unless ")
    THEN ParseTest(FALSE, HeadTest(SubSeq(rest, 8, Len(rest)), atoms, keys), atoms, keys)
    ELSE [holds |-> FALSE, cmd |-> ""]

\* a line the game skips: a comment or a blank line
IsNoOp(line) == StartsWith(line, "#") \/ line = "" \/ AllWhitespace(line)

ModifyLead == "data modify storage shulkerbox:cond "
RemoveLead == "data remove storage shulkerbox:cond "
SetTrue == " set value true"

\* the text lines of the function called by "function <namespace>:<path>"
BodyOf(call, funcs) ==
    IF \E k \in 1..Len(funcs) : call = "function ns:" \o funcs[k].path
    THEN funcs[CHOOSE k \in 1..Len(funcs) : call = "function ns:" \o funcs[k].path].lines
    ELSE <<>>

RECURSIVE RunLines(_, _, _, _)
\* one command: a flag write, a flag removal, a function call, or an
\* instruction, which is appended to the trace
ExecCommand(cmd, atoms, st, funcs) ==
    IF IsNoOp(cmd) THEN st
    ELSE IF StartsWith(cmd, ModifyLead) /\ EndsWith(cmd, SetTrue)
    THEN [st EXCEPT !.store = @ \cup {SubSeq(cmd, Len(ModifyLead) + 1, Len(cmd) - Len(SetTrue))}]
    ELSE IF StartsWith(cmd, RemoveLead)
    THEN [st EXCEPT !.store = @ \ {SubSeq(cmd, Len(RemoveLead) + 1, Len(cmd))}]
    ELSE IF StartsWith(cmd, "function ")
    THEN RunLines(BodyOf(cmd, funcs), atoms, st, funcs)
    ELSE [st EXCEPT !.trace = Append(@, cmd)]

\* an execute line whose tests and command are parsed: [holds, cmd]
ExecParsed(parsed, atoms, st, funcs) ==
    IF parsed.holds THEN ExecCommand(parsed.cmd, atoms, st, funcs) ELSE st

\* one line: an execute line runs its command if all its tests hold
ExecLine(line, atoms, st, funcs) ==
    IF StartsWith(line, "execute ")
    THEN ExecParsed(ParseExecute(SubSeq(line, 9, Len(line)), atoms, st.store), atoms, st, funcs)
    ELSE ExecCommand(line, atoms, st, funcs)

RunLines(lines, atoms, st, funcs) ==
    IF lines = <<>> THEN st
    ELSE RunLines(Tail(lines), atoms, ExecLine(Head(lines), atoms, st, funcs), funcs)

\* the functions pushed, each compiled on a state of its own path, as text lines
FunctionTexts(functions, options) ==
    [k \in 1..Len(functions) |->
        [path |-> functions[k][1],
         lines |-> SplitLines(FunctionCompile(
                       functions[k][2], options,
                       FunctionCompilerState(functions[k][1], "ns", <<>>)).content)]]

\* the Guards run: over terminals, with an else-branch
RunGuards == {g \in Guards : g.el # <<>>}

\* the options of the strategy before format 20
OptionsBefore20 == {o \in InputOptions : o.pack_format < ReturnFormat}

RunAtoms == {"foo", "bar"}

\* the lines to run and the functions to call, r being what the compile of
\* the function "main" of namespace "ns" holding the Guard returned
RunStart(r) ==
    /\ ~r.fs.panicked
    /\ rlines = SplitLines(JoinLines(r.out))
    /\ rfuncs = FunctionTexts(r.fs.functions, ropts)

RunInit ==
    /\ CondIdle
    /\ ExecIdle
    /\ NsIdle
    /\ UidIdle
    /\ QueueIdle
    /\ ValidateIdle
    /\ FolderIdle
    /\ CountIdle
    /\ CombineIdle
    /\ rguard \in RunGuards
    /\ ropts \in OptionsBefore20
    /\ rtrue \in SUBSET RunAtoms
    /\ RunStart(Call("CommandCompile", <<ExecuteCmd(rguard), ropts, CallerState>>))
    /\ store = {}
    /\ trace = <<>>
    /\ rpc = 1

\* the line runs from st: store and trace afterwards
RunLineTo(st) ==
    /\ store' = st.store
    /\ trace' = st.trace

\* the game runs the next line of the function
RunLine ==
    /\ rpc <= Len(rlines)
    /\ RunLineTo(ExecLine(rlines[rpc], rtrue, [store |-> store, trace |-> trace], rfuncs))
    /\ rpc' = rpc + 1
    /\ UNCHANGED <<rguard, ropts, rtrue, rlines, rfuncs, outsideRun>>

RunNext == RunLine

SpecRun == RunInit /\ [][RunNext]_vars

----------------------------------------------------------------------------
(* combine_conditions_commands applied to one list of condition strings    *)
(* and one list of (use_prefix, text) pairs                                *)

CombineInit ==
    /\ CondIdle
    /\ ExecIdle
    /\ NsIdle
    /\ UidIdle
    /\ QueueIdle
    /\ ValidateIdle
    /\ FolderIdle
    /\ CountIdle
    /\ RunIdle
    /\ mconds \in SeqsUpTo({"a", "b", "c"}, MaxConds)
    /\ mcmds \in SeqsUpTo({[use |-> TRUE, cmd |-> "1"], [use |-> FALSE, cmd |-> "2"]}, MaxPairs)
    /\ combined = <<>>
    /\ mpc = "input"

Combine ==
    /\ mpc = "input"
    /\ combined' = combine_conditions_commands(mconds, mcmds)
    /\ mpc' = "combined"
    /\ UNCHANGED <<mconds, mcmds, outsideCombine>>

CombineNext == Combine

SpecCombine == CombineInit /\ [][CombineNext]_vars

----------------------------------------------------------------------------
(* Properties of the condition algebra (checked under SpecCond) *)

RECURSIVE HasNotOverAndOr(_)
\* some Not node of c has an And or an Or as its child
HasNotOverAndOr(c) ==
    CASE c.t = "Atom" -> FALSE
      [] c.t = "Not" -> c.c.t \in {"And", "Or"} \/ HasNotOverAndOr(c.c)
      [] c.t \in {"And", "Or"} -> HasNotOverAndOr(c.a) \/ HasNotOverAndOr(c.b)

RECURSIVE OnlyAtomsNegated(_)
\* every Not node of c has an Atom as its child
OnlyAtomsNegated(c) ==
    CASE c.t = "Atom" -> TRUE
      [] c.t = "Not" -> c.c.t = "Atom"
      [] c.t \in {"And", "Or"} -> OnlyAtomsNegated(c.a) /\ OnlyAtomsNegated(c.b)

RECURSIVE HasOr(_)
HasOr(c) ==
    CASE c.t = "Atom" -> FALSE
      [] c.t = "Not" -> HasOr(c.c)
      [] c.t = "And" -> HasOr(c.a) \/ HasOr(c.b)
      [] c.t = "Or" -> TRUE

RECURSIVE Leaves(_)
\* the literals of an Or-free clause, left to right
Leaves(c) ==
    CASE c.t = "Atom" -> <<"if " \o c.s>>
      [] c.t = "Not" -> <<"unless " \o c.c.s>>
      [] c.t = "And" -> Leaves(c.a) \o Leaves(c.b)

RECURSIVE JoinSpace(_)
JoinSpace(ss) ==
    IF Len(ss) = 0 THEN ""
    ELSE IF Len(ss) = 1 THEN ss[1]
    ELSE ss[1] \o " " \o JoinSpace(Tail(ss))

\* every string of a paired with every string of b, a-major, joined by a space
CrossJoin(a, b) ==
    [k \in 1..(Len(a) * Len(b)) |->
        a[((k - 1) \div Len(b)) + 1] \o " " \o b[((k - 1) % Len(b)) + 1]]

DeMorganExamples ==
    /\ cond = Not(Or(Atom("foo"), Atom("bar")))
          => norm = And(Not(Atom("foo")), Not(Atom("bar")))
    /\ cond = Not(And(Atom("foo"), Atom("bar")))
          => norm = Or(Not(Atom("foo")), Not(Atom("bar")))

\* C1: normalize is idempotent: normalizing a normalized condition returns it
\* unchanged.
NormalizeIdempotent ==
    cpc \in {"renormalized", "tabled", "compiled"} => renorm = norm

\* C1 witness: a condition that normalize changed has been normalized twice.
NormalizeIdempotentWitness ==
    /\ cpc = "renormalized"
    /\ norm # cond
    /\ cond.t = "Not" /\ cond.c.t = "And"
    /\ renorm = norm

\* C2 as claimed: normalize(c) has no Not over an And or an Or, the De Morgan
\* examples come out as stated, and a tree that has no Not over an And or an
\* Or is returned unchanged.
NormalizeUnchangedWithoutNotOverAndOr ==
    cpc # "input" =>
        /\ ~HasNotOverAndOr(norm)
        /\ DeMorganExamples
        /\ (~HasNotOverAndOr(cond) => norm = cond)

\* C2 as amended: normalize(c) has no Not over an And or an Or, the De Morgan
\* examples come out as stated, and a tree in which every Not wraps an Atom
\* (so that it has no double negation either) is returned unchanged.
NormalizePushesNegationInward ==
    cpc # "input" =>
        /\ ~HasNotOverAndOr(norm)
        /\ DeMorganExamples
        /\ (OnlyAtomsNegated(cond) => norm = cond)

\* C2 witness: a negated conjunction has been normalized into a disjunction.
NormalizePushesNegationInwardWitness ==
    /\ cpc = "normalized"
    /\ cond = Not(And(Atom("foo"), Atom("bar")))
    /\ norm.t = "Or"

\* C3: every clause of to_truth_table(c) is free of Or and negates nothing but
\* Atoms, so Condition::compile renders every clause and does not panic.
TruthTableClausesRender ==
    cpc = "compiled" =>
        /\ \A k \in 1..Len(table) : ~HasOr(table[k]) /\ OnlyAtomsNegated(table[k])
        /\ ~strs.panic

\* C4: to_truth_table(And(a, b)) has as many clauses as the product of the
\* clause counts of a and b, and to_truth_table(Or(a, b)) as many as their sum.
TruthTableClauseCounts ==
    cpc \in {"tabled", "compiled"} =>
        /\ cond.t = "And" =>
              Len(table) = Len(to_truth_table(cond.a)) * Len(to_truth_table(cond.b))
        /\ cond.t = "Or" =>
              Len(table) = Len(to_truth_table(cond.a)) + Len(to_truth_table(cond.b))

\* C4 witness: a conjunction of two disjunctions has been expanded into four
\* clauses.
TruthTableClauseCountsWitness ==
    /\ cpc = "tabled"
    /\ cond.t = "And" /\ cond.a.t = "Or" /\ cond.b.t = "Or"
    /\ Len(table) = 4

\* C5: Condition::compile lists the clause strings in a stable order (for
\* Or(a, b) those of a, then those of b; for And(a, b) every clause of a paired
\* with every clause of b, a-major) and each clause string is the clause's
\* leaves, left to right, joined by single spaces ("if s", "unless s").
CompileOrderAndRendering ==
    cpc = "compiled" =>
        /\ ~strs.panic
        /\ Len(strs.out) = Len(table)
        /\ \A k \in 1..Len(table) :
              /\ ~HasOr(table[k]) /\ OnlyAtomsNegated(table[k])
              /\ strs.out[k] = JoinSpace(Leaves(table[k]))
        /\ cond.t = "Or" =>
              /\ ~CondCompile(cond.a).panic /\ ~CondCompile(cond.b).panic
              /\ strs.out = CondCompile(cond.a).out \o CondCompile(cond.b).out
        /\ cond.t = "And" =>
              /\ ~CondCompile(cond.a).panic /\ ~CondCompile(cond.b).panic
              /\ strs.out = CrossJoin(CondCompile(cond.a).out, CondCompile(cond.b).out)

----------------------------------------------------------------------------
(* Properties of Command::compile and Execute::compile (checked under      *)
(* SpecExec)                                                               *)

AllModifiers == PlainModifiers \cup {"AsAt", "Summon"}

RECURSIVE ChainEnd(_)
\* the node that ends the chain of modifiers ex starts with
ChainEnd(ex) == IF ex.t \in AllModifiers THEN ChainEnd(ex.next) ELSE ex

RECURSIVE ChainText(_)
\* the texts of the modifiers in front of ChainEnd(ex), in chain order
ChainText(ex) ==
    IF ex.t = "AsAt" THEN "as " \o ex.arg \o " at @s " \o ChainText(ex.next)
    ELSE IF ex.t \in AllModifiers
    THEN variant_name(ex) \o " " \o ex.arg \o " " \o ChainText(ex.next)
    ELSE ""

\* a text that is a comment line, empty or all whitespace
CommentOrBlank(s) == StartsWith(s, "#") \/ s = "" \/ AllWhitespace(s)

\* xcmd is a chain of modifiers ending in a Guard without else whose
\* then-branch is a Direct of one one-line Literal and whose condition
\* Condition::compile renders as one clause string
InlineGuardInput ==
    /\ xcmd.t = "Execute"
    /\ ChainEnd(xcmd.ex).t = "If"
    /\ ChainEnd(xcmd.ex).el = <<>>
    /\ ChainEnd(xcmd.ex).then.t = "Run"
    /\ ChainEnd(xcmd.ex).then.cmd.t = "Raw"
    /\ CountChar(ChainEnd(xcmd.ex).then.cmd.s, "\n") = 0
    /\ ~CondCompile(ChainEnd(xcmd.ex).cond).panic
    /\ Len(CondCompile(ChainEnd(xcmd.ex).cond).out) = 1

\* the one line of the inline guard: "execute ", the modifiers, the clause,
\* " run " and the literal; nothing hoisted, no unique id taken
InlineGuardResult ==
    /\ xres.out = <<"execute " \o ChainText(xcmd.ex)
                    \o CondCompile(ChainEnd(xcmd.ex).cond).out[1]
                    \o " run " \o ChainEnd(xcmd.ex).then.cmd.s>>
    /\ xres.fs.functions = <<>>
    /\ xres.fs.uid_counter = 0
    /\ ~xres.fs.panicked

\* C6: Execute::compile of a root Run adds no "execute " prefix and returns
\* the lines of the wrapped command unchanged; for every other root every
\* returned line starts with "execute ".
RootRunUnprefixedOthersPrefixed ==
    (xpc = "compiled" /\ xcmd.t = "Execute") =>
        IF xcmd.ex.t = "Run"
        THEN xres = CommandCompile(xcmd.ex.cmd, xopts, CallerState)
        ELSE \A k \in 1..Len(xres.out) : StartsWith(xres.out[k], "execute ")

\* C7 as claimed: under both pack formats the inline guard compiles to the
\* one line "execute <modifiers><clause> run <literal>", pushes no function
\* and takes no unique id, whatever the one-line literal is.
InlineGuardOneLineAnyLiteral ==
    (xpc = "compiled" /\ InlineGuardInput) => InlineGuardResult

\* C7 as amended: the same, for a literal that is not a comment line and not
\* blank; a literal that is one comes back alone, as the one line, again with
\* no function pushed and no unique id taken.
InlineGuardOneLine ==
    (xpc = "compiled" /\ InlineGuardInput) =>
        IF CommentOrBlank(ChainEnd(xcmd.ex).then.cmd.s)
        THEN /\ xres.out = <<ChainEnd(xcmd.ex).then.cmd.s>>
             /\ xres.fs = CallerState
        ELSE InlineGuardResult

\* C7 witness: as @a, summon pig, if foo, run "say hi" has been compiled for
\* pack format 19 into its one line.
InlineGuardOneLineWitness ==
    /\ xpc = "compiled"
    /\ xopts.pack_format = ReturnFormat - 1
    /\ xcmd = ExecuteCmd(Modifier("As", "@a", Modifier("Summon", "pig",
                  If(foo, Run(Raw("say hi")), <<>>))))
    /\ xres.out = <<"execute as @a summon pig if foo run say hi">>

\* the functions a compile has pushed whose commands are exactly cmds
PushedWith(cmds) ==
    {k \in 1..Len(xres.fs.functions) : xres.fs.functions[k][2].commands = cmds}

\* the sum of the children's get_count, computed from the variants
RECURSIVE LineCountSum(_)
LineCountSum(cmds) ==
    IF cmds = <<>> THEN 0
    ELSE LineCountSum(Tail(cmds))
         + (CASE Head(cmds).t = "Comment" -> 0
              [] Head(cmds).t = "Debug" -> IF xopts.debug THEN 1 ELSE 0
              [] Head(cmds).t = "Raw" -> CountChar(Head(cmds).s, "\n") + 1
              [] Head(cmds).t = "Group" -> 1
              [] Head(cmds).t = "Execute" -> ExecuteGetCount(Head(cmds).ex, xopts).n)

\* a Group of two or more lines: one function holding the children in order
\* is pushed in the namespace of the caller and the one line calls it
GroupHoisted ==
    /\ Len(xres.fs.functions) = 1
    /\ xres.fs.functions[1][2] =
          Function(CallerState.namespace, xres.fs.functions[1][1], xcmd.cmds)
    /\ xres.fs.functions[1][1] = "sb/main/" \o md5_hex16("main:0")
    /\ xres.out = <<"function " \o CallerState.namespace \o ":"
                    \o xres.fs.functions[1][1]>>

\* C8 as claimed: a Group whose children sum to exactly 1 line is compiled
\* inline and no function is pushed; a Group whose children sum to 2 or more
\* lines pushes exactly one function and returns the one line calling it.
GroupOfOneLineCreatesNoFunction ==
    (xpc = "compiled" /\ xcmd.t = "Group") =>
        /\ LineCountSum(xcmd.cmds) = 1 =>
              /\ xres = CompileEach(xcmd.cmds, xopts, CallerState)
              /\ xres.fs.functions = <<>>
        /\ LineCountSum(xcmd.cmds) >= 2 => GroupHoisted

\* C8 as amended: a Group whose children sum to exactly 1 line is compiled
\* inline and no function holding its children is pushed for it: the only
\* functions pushed are those its children push themselves, none when no
\* child is a Group or an Execute; a Group whose children sum to 2 or more
\* lines pushes exactly one function and returns the one line calling it.
GroupHoistThreshold ==
    (xpc = "compiled" /\ xcmd.t = "Group") =>
        /\ LineCountSum(xcmd.cmds) = 1 =>
              /\ xres = CompileEach(xcmd.cmds, xopts, CallerState)
              /\ PushedWith(xcmd.cmds) = {}
              /\ (\A k \in 1..Len(xcmd.cmds) : xcmd.cmds[k].t \notin {"Group", "Execute"})
                    => xres.fs.functions = <<>>
        /\ LineCountSum(xcmd.cmds) >= 2 => GroupHoisted

\* C8 witness: a Group whose only child is a Group of two lines has been
\* compiled inline: the one line calls the function the child pushed.
GroupHoistThresholdWitness ==
    /\ xpc = "compiled"
    /\ xcmd = Group(<<Group(<<Raw("say hi"), Raw("say ho")>>)>>)
    /\ xres.out = <<"function ns:sb/main/" \o md5_hex16("main:0")>>
    /\ PushedWith(xcmd.cmds) = {}
    /\ PushedWith(xcmd.cmds[1].cmds) = {1}

\* C15: Command::compile of a Literal returns one line per newline-separated
\* segment of its text, as many lines as the Literal's get_count.
LiteralLinePerSegment ==
    (xpc = "compiled" /\ xcmd.t = "Raw") =>
        /\ xres.out = SplitLines(xcmd.s)
        /\ Len(xres.out) = CommandGetCount(xcmd, xopts).n

\* line is a comment or blank text with a prefix ending in "run " in front
PrefixedCommentOrBlank(line) ==
    \E i \in 4..Len(line) :
        /\ SubSeq(line, i - 3, i) = "run "
        /\ CommentOrBlank(SubSeq(line, i + 1, Len(line)))

\* C16: a comment line or a blank line inside an execute chain reaches the
\* output verbatim: no returned line is a prefix ending in "run " followed
\* by a comment or a blank text.
CommentsNeverPrefixed ==
    (xpc = "compiled" /\ xcmd.t = "Execute") =>
        \A k \in 1..Len(xres.out) : ~PrefixedCommentOrBlank(xres.out[k])

\* xcmd is a chain of at least one modifier ending in a Guard
ModifiersThenGuard ==
    /\ xcmd.t = "Execute"
    /\ xcmd.ex.t \in AllModifiers
    /\ ChainEnd(xcmd.ex).t = "If"

\* a returned line that runs or calls branch work: not a comment, not blank
\* and not the reset of the success storage
BranchWorkLine(line) ==
    /\ ~CommentOrBlank(line)
    /\ ~StartsWith(line, "data remove storage shulkerbox:cond ")

\* C18: for a chain of modifiers followed by a Guard, under both pack formats
\* and hoisted or not, every returned line that runs or calls branch work
\* starts with "execute " and the text of every modifier in chain order.
ModifierPrefixKept ==
    (xpc = "compiled" /\ ModifiersThenGuard) =>
        \A k \in 1..Len(xres.out) :
            BranchWorkLine(xres.out[k]) =>
                StartsWith(xres.out[k], "execute " \o ChainText(xcmd.ex))

RECURSIVE HasSummon(_)
\* some modifier of the chain ex starts with is a Summon
HasSummon(ex) ==
    /\ ex.t \in AllModifiers
    /\ ex.t = "Summon" \/ HasSummon(ex.next)

RECURSIVE SequencesBelow(_)
\* the instruction lists of the DirectSequence terminals reached from ex
\* through modifiers, a Direct wrapping an execute, and then- and else-branches
SequencesBelow(ex) ==
    CASE ex.t \in AllModifiers -> SequencesBelow(ex.next)
      [] ex.t = "Runs" -> {ex.cmds}
      [] ex.t = "Run" ->
            IF ex.cmd.t = "Execute" THEN SequencesBelow(ex.cmd.ex) ELSE {}
      [] ex.t = "If" ->
            SequencesBelow(ex.then)
            \cup (IF ex.el = <<>> THEN {} ELSE SequencesBelow(ex.el[1]))

\* some pushed function holds the instructions cmds, in order and together
FoldedIntoFunction(cmds) ==
    \E k \in 1..Len(xres.fs.functions) :
        LET commands == xres.fs.functions[k][2].commands
        IN \E i \in 0..(Len(commands) - Len(cmds)) :
               SubSeq(commands, i + 1, i + Len(cmds)) = cmds

\* C19: when the chain holds a Summon, every DirectSequence reached below it
\* whose instructions sum to more than one line is folded into one hoisted
\* function that is called, not emitted as one prefixed line per instruction.
SummonFoldsSequences ==
    (xpc = "compiled" /\ xcmd.t = "Execute" /\ HasSummon(xcmd.ex)
        /\ ~xres.fs.panicked) =>
        \A cmds \in SequencesBelow(xcmd.ex) :
            LineCountSum(cmds) > 1 => FoldedIntoFunction(cmds)

\* xcmd is a Guard compiled before format 20 whose then-branch is a Direct of
\* a Literal, Comment or Debug, or a DirectSequence, so that only the Guard
\* and its Groups can take unique ids
PlainGuardBefore20 ==
    /\ xpc = "compiled"
    /\ xcmd.t = "Execute"
    /\ xcmd.ex.t = "If"
    /\ xopts.pack_format < ReturnFormat
    /\ ~xres.fs.panicked
    /\ xcmd.ex.then.t \in {"Run", "Runs"}
    /\ xcmd.ex.then.t = "Run" => xcmd.ex.then.cmd.t \notin {"Execute", "Group"}

\* the then-branch compiled on its own, as then_count counts it
StandaloneThen == Call("compile_internal", <<xcmd.ex.then, "", FALSE, xopts, CallerState>>).out

\* the instructions of the then-branch, as the Guard hands them to the Group
ThenInstructions ==
    IF xcmd.ex.then.t = "Run" THEN <<xcmd.ex.then.cmd>> ELSE xcmd.ex.then.cmds

\* the then-branch went through the Group: a function starting with its
\* instructions was pushed and is called, or, the Group being of one line at
\* most, each of its lines comes back behind "run "
ThenThroughGroup ==
    \/ \E k \in 1..Len(xres.fs.functions) :
          /\ SubSeq(xres.fs.functions[k][2].commands, 1, Len(ThenInstructions))
                = ThenInstructions
          /\ \E j \in 1..Len(xres.out) :
                EndsWith(xres.out[j], "run function ns:" \o xres.fs.functions[k][1])
    \/ \A i \in 1..Len(StandaloneThen) :
          \E j \in 1..Len(xres.out) :
              EndsWith(xres.out[j],
                       IF StandaloneThen[i].use THEN StandaloneThen[i].cmd
                       ELSE "run " \o StandaloneThen[i].cmd)

\* each line of lines once per clause, behind "execute <clause> " if it
\* takes a prefix
InlineByClause(clauses, lines) ==
    [k \in 1..(Len(clauses) * Len(lines)) |->
        LET clause == clauses[((k - 1) \div Len(lines)) + 1]
            line == lines[((k - 1) % Len(lines)) + 1]
        IN IF line.use THEN "execute " \o clause \o " " \o line.cmd ELSE line.cmd]

\* C20: before format 20 a Guard takes a unique id and sends its then-branch
\* through the Group compile exactly if it has an else-branch or its
\* then-branch alone compiles to more than one line; otherwise it takes no
\* unique id and returns the then-branch inline, each line behind each clause.
GuardGroupsIffElseOrManyLines ==
    PlainGuardBefore20 =>
        IF xcmd.ex.el # <<>> \/ Len(StandaloneThen) > 1
        THEN /\ xres.fs.uid_counter >= 1
             /\ ThenThroughGroup
        ELSE /\ xres.fs.uid_counter = 0
             /\ xres.fs.functions = <<>>
             /\ xres.out = InlineByClause(CondCompile(xcmd.ex.cond).out, StandaloneThen)

Contains(s, sub) ==
    \E i \in 1..(Len(s) - Len(sub) + 1) : SubSeq(s, i, i + Len(sub) - 1) = sub

\* xcmd is a chain of modifiers, possibly none, ending in a Guard over
\* terminals, compiled before format 20 without a panic
GuardChainBefore20 ==
    /\ xpc = "compiled"
    /\ xcmd.t = "Execute"
    /\ ChainEnd(xcmd.ex) \in Guards
    /\ xopts.pack_format < ReturnFormat
    /\ ~xres.fs.panicked

\* the clauses of the Guard's condition
GuardClauses == CondCompile(ChainEnd(xcmd.ex).cond).out

\* a success flag is used: an else-branch is present or there are several clauses
FlagUsed == ChainEnd(xcmd.ex).el # <<>> \/ Len(GuardClauses) > 1

\* the number of per-clause flag writes
FlagWrites == IF Len(GuardClauses) > 1 THEN Len(GuardClauses) ELSE 0

CleanupLead == "data remove storage shulkerbox:cond "

\* the flag key named by the first returned line
FirstLineKey == SubSeq(xres.out[1], Len(CleanupLead) + 1, Len(xres.out[1]))

\* a line guarded on the flag not being set: an else-line
IsElseLine(line) ==
    Contains(line, "unless data storage shulkerbox:cond {" \o FirstLineKey \o ":1b} run ")

\* C22: before format 20, when a success flag is used the returned lines are
\* the unprefixed cleanup line, the flag writes clause by clause, the
\* then-lines, the else-lines and the same cleanup line again; when no flag
\* is used no cleanup line is returned.
FlagLinesOrdered ==
    GuardChainBefore20 =>
        IF FlagUsed
        THEN /\ Len(xres.out) >= 2 + FlagWrites
             /\ StartsWith(xres.out[1], CleanupLead)
             /\ xres.out[Len(xres.out)] = xres.out[1]
             /\ \A k \in 1..FlagWrites :
                   xres.out[1 + k] = "execute " \o ChainText(xcmd.ex) \o GuardClauses[k]
                                     \o " run " \o FlagWrite(FirstLineKey)
             /\ \A p \in (2 + FlagWrites)..(Len(xres.out) - 1) :
                   /\ ~StartsWith(xres.out[p], CleanupLead)
                   /\ IsElseLine(xres.out[p]) =>
                         \A q \in (p + 1)..(Len(xres.out) - 1) :
                             StartsWith(xres.out[q], "execute ") => IsElseLine(xres.out[q])
             /\ ChainEnd(xcmd.ex).el = <<>> =>
                   \A p \in 1..Len(xres.out) : ~IsElseLine(xres.out[p])
        ELSE \A k \in 1..Len(xres.out) : ~StartsWith(xres.out[k], CleanupLead)

\* C22 witness: as @a, if foo or bar, then "say hi", else "say no" has been
\* compiled for format 19: cleanup, two writes, then-line, else-line, cleanup.
FlagLinesOrderedWitness ==
    /\ GuardChainBefore20
    /\ xcmd.ex.t = "As"
    /\ ChainEnd(xcmd.ex).cond = Or(foo, bar)
    /\ ChainEnd(xcmd.ex).then = Run(Raw("say hi"))
    /\ ChainEnd(xcmd.ex).el = <<Run(Raw("say no"))>>
    /\ Len(xres.out) = 6
    /\ IsElseLine(xres.out[5])
    /\ ~IsElseLine(xres.out[4])

\* the then-branch of the Guard compiled on its own
GuardThenAlone ==
    Call("compile_internal", <<ChainEnd(xcmd.ex).then, "", FALSE, xopts, InternalState>>).out

\* the lines the then-branch of the Guard comes to: those of its Group,
\* compiled after the Guard has taken its id, if the Guard groups it, those
\* of the branch alone otherwise
GuardThenLines ==
    IF ChainEnd(xcmd.ex).el # <<>> \/ Len(GuardThenAlone) > 1
    THEN MapTrue(Call("compile_group",
                      <<BranchCommands(ChainEnd(xcmd.ex).then), xopts,
                        request_uid(CallerState).fs>>).out,
                 "run ")
    ELSE GuardThenAlone

\* the text in front of a line guarded on the flag being set
FlagCheckLead ==
    "execute " \o ChainText(xcmd.ex) \o "if data storage shulkerbox:cond {"
    \o FirstLineKey \o ":1b} "

\* the positions of the returned lines that write the flag behind a clause
FlagWritePositions ==
    {k \in 1..Len(xres.out) :
        /\ StartsWith(xres.out[k], "execute ")
        /\ EndsWith(xres.out[k], " run " \o FlagWrite(FirstLineKey))}

\* C23: before format 20, with a condition of N > 1 clauses, exactly N lines
\* write the flag, one per clause in order, and the then-lines follow once
\* each, guarded on the flag check and not on the clauses.
ThenLinesOncePerGuard ==
    (GuardChainBefore20 /\ Len(GuardClauses) > 1) =>
        /\ FlagWritePositions = 2..(1 + Len(GuardClauses))
        /\ \A k \in 1..Len(GuardClauses) :
              xres.out[1 + k] = "execute " \o ChainText(xcmd.ex) \o GuardClauses[k]
                                \o " run " \o FlagWrite(FirstLineKey)
        /\ Len(xres.out) >= 2 + Len(GuardClauses) + Len(GuardThenLines)
        /\ \A i \in 1..Len(GuardThenLines) :
              xres.out[1 + Len(GuardClauses) + i] =
                  IF GuardThenLines[i].use
                  THEN FlagCheckLead \o GuardThenLines[i].cmd
                  ELSE GuardThenLines[i].cmd
        /\ \A p \in (2 + Len(GuardClauses) + Len(GuardThenLines))..(Len(xres.out) - 1) :
              IsElseLine(xres.out[p]) \/ ~StartsWith(xres.out[p], "execute ")

\* C23 witness: if foo or bar, then "say hi" twice, without else, has been
\* compiled for format 19: two flag writes and one call of the hoisted
\* then-branch, guarded on the flag.
ThenLinesOncePerGuardWitness ==
    /\ GuardChainBefore20
    /\ xcmd.ex.t = "If"
    /\ xcmd.ex.cond = Or(foo, bar)
    /\ xcmd.ex.then = Runs(<<Raw("say hi"), Raw("say hi")>>)
    /\ xcmd.ex.el = <<>>
    /\ Len(xres.out) = 5
    /\ StartsWith(xres.out[4], FlagCheckLead \o "run function ns:sb/main/")

\* C24: before format 20, every Guard that uses a success flag names it by
\* the digest of a unique id it has requested from the state of the function
\* being compiled; none falls back to a fixed key.
FlagKeyFromRequestedUid ==
    (GuardChainBefore20 /\ FlagUsed) =>
        /\ xres.fs.uid_counter >= 1
        /\ FirstLineKey = md5_hex("main:0")
        /\ \A k \in 1..Len(xres.out) :
              Contains(xres.out[k], "shulkerbox:cond") =>
                  Contains(xres.out[k], md5_hex("main:0"))

\* the Guard nested in a branch of the nested Guard g
InnerGuard(g) ==
    IF g.then.t = "If" THEN g.then
    ELSE IF g.el[1].t = "If" THEN g.el[1]
    ELSE g.el[1].cmd.ex

\* an if/else Guard nested in the then- or else-branch of an if/else Guard
NestedIfElse == {g \in NestedGuards : InnerGuard(g).el # <<>>}

LinesOf(lines) == {lines[i] : i \in 1..Len(lines)}

\* the lines of the functions a compile has pushed, each compiled as
\* Namespace::compile compiles it: on a fresh state for its own path
HoistedLines(functions, options) ==
    UNION {LinesOf(Call("CompileEach",
                        <<functions[k][2].commands, options,
                          FunctionCompilerState(functions[k][1], "ns", <<>>)>>).out)
           : k \in 1..Len(functions)}

\* the flag keys whose cleanup line is among lines
CleanupKeys(lines) ==
    {SubSeq(l, Len(CleanupLead) + 1, Len(l)) : l \in {x \in lines : StartsWith(x, CleanupLead)}}

\* out being the lines of a nested Guard, whose first line is the cleanup of
\* the enclosing Guard: the nested Guard cleans up the same key, in out
\* (beyond the two cleanup lines of the enclosing Guard) or in a hoisted function
SharesKey(out, functions, options) ==
    \/ Cardinality({k \in 1..Len(out) : out[k] = out[1]}) > 2
    \/ out[1] \in HoistedLines(functions, options)

\* a nested if/else Guard has been compiled before format 20 without a panic
NestedIfElseCompiled ==
    /\ xpc = "compiled"
    /\ xcmd.t = "Execute"
    /\ ChainEnd(xcmd.ex) \in NestedIfElse
    /\ xopts.pack_format < ReturnFormat
    /\ ~xres.fs.panicked

ElseGuard(el) ==
    IF el = <<>> THEN <<>>
    ELSE IF el[1].t = "If" THEN el
    ELSE IF el[1].t = "Run" /\ el[1].cmd.t = "Execute" /\ el[1].cmd.ex.t = "If"
    THEN <<el[1].cmd.ex>>
    ELSE <<>>

\* the then-lines of one Guard of an else-if chain: the call of the function the
\* then-branch was hoisted into, or its own lines when it has at most one
ChainThenLines(then) ==
    IF LineCountSum(BranchCommands(then)) > 1
    THEN IF PushedWith(BranchCommands(then)) = {} THEN <<>>
         ELSE <<"function ns:"
                 \o xres.fs.functions[CHOOSE k \in PushedWith(BranchCommands(then)) : TRUE][1]>>
    ELSE CompileEach(BranchCommands(then), xopts, CallerState).out

\* 'execute <clause> run return run <then-line>' for every clause and then-line
ReturnLines(clauses, lines) ==
    [k \in 1..(Len(clauses) * Len(lines)) |->
        Raw("execute " \o clauses[((k - 1) \div Len(lines)) + 1]
            \o " run return run " \o lines[((k - 1) % Len(lines)) + 1])]

RECURSIVE FlatChain(_)
\* the flat list of an else-if chain: the return lines of each Guard in order,
\* then the instructions of the final else
FlatChain(g) ==
    ReturnLines(CondCompile(g.cond).out, ChainThenLines(g.then))
    \o (IF ElseGuard(g.el) # <<>> THEN FlatChain(ElseGuard(g.el)[1])
        ELSE IF g.el = <<>> THEN <<>>
        ELSE BranchCommands(g.el[1]))

RECURSIVE ChainDepth(_)
ChainDepth(g) == IF ElseGuard(g.el) = <<>> THEN 1 ELSE 1 + ChainDepth(ElseGuard(g.el)[1])

\* a root Guard whose else branch is itself a Guard, compiled by returns
ElseIfChainSince20 ==
    /\ xpc = "compiled"
    /\ xcmd.t = "Execute"
    /\ xcmd.ex.t = "If"
    /\ ElseGuard(xcmd.ex.el) # <<>>
    /\ xopts.pack_format >= ReturnFormat
    /\ ~xres.fs.panicked

\* the lines a pushed function's literal instructions hold
PushedRawTexts ==
    UNION {{c.s : c \in {d \in LinesOf(xres.fs.functions[k][2].commands) : d.t = "Raw"}} :
              k \in 1..Len(xres.fs.functions)}

OneClauseLongThenSince20 ==
    /\ xpc = "compiled"
    /\ xcmd.t = "Execute"
    /\ ChainEnd(xcmd.ex).t = "If"
    /\ ChainEnd(xcmd.ex).el = <<>>
    /\ Len(CondCompile(ChainEnd(xcmd.ex).cond).out) = 1
    /\ ExecuteGetCount(ChainEnd(xcmd.ex).then, xopts).n > 1
    /\ xopts.pack_format >= ReturnFormat
    /\ ~xres.fs.panicked

\* C28: from pack format 20 on, a Guard with no else, exactly one clause and a
\* then-branch of more than one standalone line hoists only the then-branch, its
\* instructions unchanged, and returns the single line
\* '<prefix><clause> run function <namespace>:<path>' that calls it
LongThenIsHoisted ==
    OneClauseLongThenSince20 =>
        /\ Len(xres.fs.functions) = 1
        /\ xres.fs.functions[1][2].commands = BranchCommands(ChainEnd(xcmd.ex).then)
        /\ xres.out = <<"execute " \o ChainText(xcmd.ex)
                        \o CondCompile(ChainEnd(xcmd.ex).cond).out[1]
                        \o " run function ns:" \o xres.fs.functions[1][1]>>

----------------------------------------------------------------------------
(* Properties of Namespace::compile (checked under SpecNamespace) and of   *)
(* request_uid (checked under SpecUid)                                     *)

\* C9: within one Namespace::compile no two functions are pushed onto the
\* queue under the same path, whichever functions the hoists come from.
HoistedPathsDistinct ==
    \A i, j \in 1..Len(pushed) : i # j => pushed[i] # pushed[j]

\* C10: the values request_uid has returned for one FunctionCompilerState are
\* 0, 1, 2, ... in the order of the returns, each once, under every
\* interleaving of the calling threads, and uid_counter never goes down.
RequestUidReturnsEachOnce ==
    /\ [](\A k \in 1..Len(returned) : returned[k].uid = k - 1)
    /\ [][uid_counter' >= uid_counter]_vars

\* C10 witness: both threads have got values from the one counter, which has
\* been incremented once per return.
RequestUidReturnsEachOnceWitness ==
    /\ Len(returned) >= 3
    /\ \E i, j \in 1..Len(returned) : returned[i].thread # returned[j].thread
    /\ uid_counter = Len(returned)
    /\ holder = NoThread

----------------------------------------------------------------------------
(* Properties of ExtendableQueue (checked under SpecQueue)                 *)

\* C11: under every interleaving of push / extend with next / pop_front, the
\* elements handed out so far followed by the elements still queued are the
\* elements appended, in the order they were appended (so each element is
\* handed out at most once and none is lost), and next / pop_front returns
\* None only when the queue is empty.
QueueIsFifo ==
    /\ appended = taken \o deque
    /\ \A t \in DOMAIN qpc :
          (qpc[t] = "applied" /\ qop[t].name \in {"next", "pop_front"} /\ got[t] = <<>>)
              => deque = <<>>

\* C11 witness: elements appended while the queue was being drained have
\* been handed out in order and a next has then found the queue empty.
QueueIsFifoWitness ==
    /\ Len(taken) >= 2
    /\ taken = appended
    /\ \E t \in DOMAIN qpc :
          qpc[t] = "applied" /\ qop[t].name = "next" /\ got[t] = <<>>

\* C12: the loop of Namespace::compile ends: compiling a function may push
\* further functions, which may push again, but the queue runs empty and the
\* loop is left.
DrainLoopTerminates == <>(npc = "done" /\ queue = <<>>)

\* C12 witness: the loop has been left after a function hoisted from a
\* hoisted function was compiled.
DrainLoopTerminatesWitness ==
    /\ npc = "done"
    /\ queue = <<>>
    /\ \E k \in 1..Len(pushed) :
          StartsWith(pushed[k], "sb/foo/" \o md5_hex16("foo:0") \o "/")

----------------------------------------------------------------------------
(* Properties of validate (checked under SpecValidate)                     *)

\* C13: validating a Literal returns true iff its text has no token, or its
\* first token is not in the command table, or the formats of that command
\* contain the whole supported range (start <= range start and end >= range
\* end); "tag .." is valid for 6..=9 and not for 2..=5.
LiteralValidIffRangeContained ==
    (vpc = "validated" /\ vcmd.t = "Raw") =>
        /\ vres = (\/ FirstToken(vcmd.s) = <<>>
                   \/ FirstToken(vcmd.s)[1] \notin DOMAIN CMD_FORMATS
                   \/ /\ CMD_FORMATS[FirstToken(vcmd.s)[1]].start <= vrange.start
                      /\ CMD_FORMATS[FirstToken(vcmd.s)[1]].end >= vrange.end)
        /\ (vcmd = tag /\ vrange = [start |-> 6, end |-> 9]) => vres
        /\ (vcmd = tag /\ vrange = [start |-> 2, end |-> 5]) => ~vres

\* C13 witness: "tag @s add foo" has been found invalid for 2..=5.
LiteralValidIffRangeContainedWitness ==
    /\ vpc = "validated"
    /\ vcmd = tag
    /\ vrange = [start |-> 2, end |-> 5]
    /\ vres = FALSE

RECURSIVE EveryNodeValid(_, _)
RECURSIVE EveryChainNodeValid(_, _)

\* every Literal reachable from command c, those inside Groups included, is
\* valid and every modifier and Guard reachable from it meets its least format
EveryNodeValid(c, range) ==
    CASE c.t \in {"Comment", "Debug"} -> TRUE
      [] c.t = "Raw" -> validate_raw_cmd(c.s, range)
      [] c.t = "Group" -> \A k \in 1..Len(c.cmds) : EveryNodeValid(c.cmds[k], range)
      [] c.t = "Execute" -> EveryChainNodeValid(c.ex, range)

EveryChainNodeValid(ex, range) ==
    CASE ex.t = "Run" -> EveryNodeValid(ex.cmd, range)
      [] ex.t = "Runs" -> \A k \in 1..Len(ex.cmds) : EveryNodeValid(ex.cmds[k], range)
      [] ex.t = "If" ->
            /\ range.start >= 4
            /\ EveryChainNodeValid(ex.then, range)
            /\ \A k \in 1..Len(ex.el) : EveryChainNodeValid(ex.el[k], range)
      [] ex.t \in {"Summon", "On"} ->
            range.start >= 12 /\ EveryChainNodeValid(ex.next, range)
      [] OTHER -> range.start >= 4 /\ EveryChainNodeValid(ex.next, range)

\* C14: validate returns true iff every reachable modifier and Guard meets
\* its least format (12 for Summon and On, 4 for the others) and every
\* reachable Literal, those inside Groups, DirectSequences and the branches of
\* Guards included, is valid for the range.
ValidateChecksEveryNode ==
    vpc = "validated" => vres = EveryNodeValid(vcmd, vrange)

----------------------------------------------------------------------------
(* Properties of VFolder (checked under SpecFolder) *)

\* C17: right after add_existing_folder(path, folder), get_folder(path)
\* returns a folder equal to the one passed in, for one-name and nested paths.
AddedFolderIsFound ==
    (fop = "add_existing_folder" /\ fpc = "got" /\ asked = fpath) =>
        found = <<farg>>

----------------------------------------------------------------------------
(* Properties of Execute::get_count (checked under SpecCount) *)

\* the counted branch takes a unique id or pushes a function when compiled
CountedBranchHoists ==
    LET r == Call("compile_internal", <<kex, "", FALSE, kopts, InternalState>>)
    IN r.fs.uid_counter > 0 /\ r.fs.functions # <<>>

\* C21: Execute::get_count leaves the enclosing compile alone: the unique-id
\* counter and the worklist of the enclosing state are the same after the
\* count as before it, also when the counted branch hoists or takes ids.
CountLeavesEnclosingStateAlone ==
    (kpc = "counted") =>
        /\ kfs.uid_counter = kbefore.uid_counter
        /\ kfs.functions = kbefore.functions

\* C21 witness: a branch that hoists has been counted from a compile that
\* had already taken an id and pushed a function.
CountLeavesEnclosingStateAloneWitness ==
    /\ kpc = "counted"
    /\ kn >= 1
    /\ kbefore.uid_counter = 1
    /\ kbefore.functions # <<>>
    /\ CountedBranchHoists

----------------------------------------------------------------------------
(* Properties of the lines of a Guard when run (checked under SpecRun) *)

\* the instructions a branch comes to when it is run on its own
BranchWork(branch) ==
    SelectSeq(SplitLines(JoinLines(
                  Call("CompileEach", <<BranchCommands(branch), ropts, InternalState>>).out)),
              LAMBDA line : ~IsNoOp(line))

\* at least one clause of the Guard's condition holds
SomeClauseHolds ==
    \E k \in 1..Len(to_truth_table(rguard.cond)) :
        EvalCondition(to_truth_table(rguard.cond)[k], rtrue)

----------------------------------------------------------------------------
(* Truth values of the condition pipeline (checked under SpecCond)         *)

\* some clause of the table is true under the assignment
SomeClauseTrue(clauses, atoms) ==
    \E k \in 1..Len(clauses) : EvalCondition(clauses[k], atoms)

\* normalize(c) has the truth value of c under every assignment
NormalizeKeepsTruthValue ==
    cpc # "input" =>
        \A atoms \in SUBSET Atoms : EvalCondition(norm, atoms) = EvalCondition(cond, atoms)

\* read as trees, the clauses of to_truth_table(c) are true somewhere exactly
\* when c is
TableTreesKeepTruthValue ==
    cpc \in {"tabled", "compiled"} =>
        \A atoms \in SUBSET Atoms :
            EvalCondition(cond, atoms) = SomeClauseTrue(table, atoms)

\* C29: under every truth assignment to the atoms, c is true exactly when some
\* clause of to_truth_table(c) is true, every clause being a conjunction of
\* 'if' and 'unless' leaves (a tree str_cond renders), and normalize(c) has the
\* truth value of c
TableKeepsTruthValue ==
    cpc \in {"tabled", "compiled"} =>
        /\ \A k \in 1..Len(table) : str_cond(table[k]) # <<>>
        /\ \A atoms \in SUBSET Atoms :
               /\ EvalCondition(cond, atoms) = SomeClauseTrue(table, atoms)
               /\ EvalCondition(norm, atoms) = EvalCondition(cond, atoms)

----------------------------------------------------------------------------
(* Properties of combine_conditions_commands (checked under SpecCombine)   *)

\* C30: combine_conditions_commands applied to N condition strings and M
\* (use_prefix, text) pairs returns exactly N*M pairs, clause-major and
\* command-minor: the pair for condition i and command j stands at (i-1)*M + j,
\* is '<condition> <text>' with use_prefix kept if the command's use_prefix is
\* true, and is the command's pair unchanged if it is false
CombineIsClauseMajor ==
    mpc = "combined" =>
        /\ Len(combined) = Len(mconds) * Len(mcmds)
        /\ \A i \in 1..Len(mconds) : \A j \in 1..Len(mcmds) :
               combined[(i - 1) * Len(mcmds) + j] =
                   IF mcmds[j].use
                   THEN [use |-> TRUE, cmd |-> mconds[i] \o " " \o mcmds[j].cmd]
                   ELSE mcmds[j]

\* C30 witness: the three conditions a, b, c combined with (true, "1") and
\* (false, "2"), as in test_combine_conditions_commands
CombineIsClauseMajorWitness ==
    /\ mpc = "combined"
    /\ mconds = <<"a", "b", "c">>
    /\ mcmds = <<[use |-> TRUE, cmd |-> "1"], [use |-> FALSE, cmd |-> "2"]>>
    /\ combined = <<[use |-> TRUE, cmd |-> "a 1"], [use |-> FALSE, cmd |-> "2"],
                    [use |-> TRUE, cmd |-> "b 1"], [use |-> FALSE, cmd |-> "2"],
                    [use |-> TRUE, cmd |-> "c 1"], [use |-> FALSE, cmd |-> "2"]>>

====
